---- MODULE Spec2Model ----
(***************************************************************************)
(* Prayer-time scheduling and cache engine of sujood:                      *)
(*   PrayerCalculator (src/src/prayer_times/calculator.rs) over the        *)
(*   prayer_times_cache table (CacheRepo, src/src/db/repository.rs).       *)
(*                                                                         *)
(* A NaiveTime is an integer count of sub-second ticks since 00:00:00      *)
(* (SubsecPerSec ticks per second); a calendar date is a day number; a     *)
(* stored "HH:MM" string is the pair <<HH, MM>>.                           *)
(***************************************************************************)
EXTENDS Integers, Sequences, FiniteSets, TLC

\* ---- bounds of the model ------------------------------------------------
SubsecPerSec == 2      \* resolution of the fractional part of a NaiveTime
MaxToday == 1          \* the clock runs over the days 0..MaxToday
MaxAhead == 1          \* days_ahead arguments are 0..MaxAhead
HistoryDays == 4       \* completion records reach back to the day -HistoryDays

\* NaiveDate::MAX stands far beyond every date the clock reaches
NaiveDateMax == 1000000

MaxDate == MaxToday + MaxAhead
Dates == 0..MaxDate

VARIABLES
    config,            \* AppConfig.salah: the Context the calculator is built from
    cache,             \* prayer_times_cache: date -> row of six "HH:MM" strings, or NoRow
    today,             \* chrono::Local::now().date_naive()
    call,              \* the last operation executed: arguments, result, Provider calls
    next_prayer_info,  \* App.next_prayer_info
    prayers,           \* prayers table: date -> is_qada -> prayer -> status or "absent"
    procs,             \* callers inside get_cached_or_compute: position and locals
    app_meta,          \* app_meta table: the value of the key setup_done
    wizard,            \* SetupWizard of a running run_setup_tui, and what main does next
    dhikr_log,         \* dhikr_log table: dhikr name -> date -> row or NoLog
    qada_queue,        \* qada_queue table: the rows in id order
    app,               \* the App of a running TUI session
    quran_log          \* quran_log table: date -> pages, in 1/PageScale of a page

vars == <<config, cache, today, call, next_prayer_info, prayers, procs, app_meta,
          wizard, dhikr_log, qada_queue, app, quran_log>>

\* the variables outside the prayer-time engine
rest == <<procs, app_meta, wizard, dhikr_log, qada_queue, app, quran_log>>

\* ---- time of day --------------------------------------------------------
SecsPerDay == 86400
TicksPerDay == SecsPerDay * SubsecPerSec

HMS(h, m, s) == ((h * 60 + m) * 60 + s) * SubsecPerSec

\* chrono::Duration::num_seconds: whole seconds, truncated toward zero
num_seconds(d) == IF d >= 0 THEN d \div SubsecPerSec ELSE 0 - ((0 - d) \div SubsecPerSec)

\* the five obligation prayers in the order of PrayerType::all()
PrayerTypes == <<"Fajr", "Zuhr", "Asr", "Maghrib", "Isha">>
\* the five values of prayer_type (PrayerType::all)
PrayerTypeSet == {PrayerTypes[i] : i \in 1..Len(PrayerTypes)}

\* the dates the prayers table can hold rows for
PrayerDates == (0 - HistoryDays)..MaxToday

\* a date with no row in prayers
NoRecords == [q \in {0, 1} |-> [pt \in PrayerTypeSet |-> "absent"]]

\* the six fields of PrayerTimesLocal / CachedTimes
Fields == <<"fajr", "sunrise", "zuhr", "asr", "maghrib", "isha">>
FieldSet == {Fields[i] : i \in 1..Len(Fields)}

\* ---- Context ------------------------------------------------------------
\* The Contexts of the model: one location (coordinates, method and madhab)
\* under its own UTC offset, under another offset, and under an offset that
\* chrono::FixedOffset cannot represent.
Contexts == { [loc |-> "London", method |-> "MuslimWorldLeague", madhab |-> "Hanafi", tz |-> 0],
              [loc |-> "London", method |-> "MuslimWorldLeague", madhab |-> "Hanafi", tz |-> 600],
              [loc |-> "London", method |-> "MuslimWorldLeague", madhab |-> "Hanafi", tz |-> 1440] }

\* anyhow errors, told apart by the message the code builds
Error(kind) == [tag |-> "Err", kind |-> kind]
Ok(v) == [tag |-> "Ok", val |-> v]
None == [tag |-> "None"]
Some(v) == [tag |-> "Some", val |-> v]

\* ---- tables and sessions at first start ----------------------------------
\* the two callers of the unguarded cache engine
Procs == {1, 2}

\* a caller that is not inside get_cached_or_compute
Idle == [pc |-> "idle", date |-> 0, times |-> None, result |-> None]

\* no run_setup_tui is running
NoWizard == [step |-> "Closed", tz_minutes |-> 0, then |-> "exit"]

\* the three builtin dhikr of seed_builtins; the first two are checkboxes
DhikrNames == {"Morning Adhkar", "Evening Adhkar", "Post-Salah Tasbih"}

\* no dhikr_log row for a dhikr and a date
NoLog == [tag |-> "NoLog"]

\* DhikrRepo::get_active_definitions: the names ORDER BY sort_order, id
get_active_definitions == <<"Morning Adhkar", "Evening Adhkar", "Post-Salah Tasbih">>

\* DhikrRepo::get_log_for_date, keyed by dhikr as App::load keeps it
get_log_for_date(log, date) == [n \in DhikrNames |-> log[n][date]]

\* no TUI session is running
NoApp == [running |-> FALSE, config |-> None, today_str |-> 0, view |-> "Dashboard",
          focus_section |-> "Prayers", focus_idx |-> 0, should_quit |-> FALSE,
          input_mode |-> "Normal", input_buffer |-> <<>>, input_error |-> None,
          show_qada_overlay |-> FALSE, prayers |-> <<>>, dhikr_defs |-> <<>>,
          dhikr_logs |-> [n \in DhikrNames |-> NoLog], quran_today |-> 0]

\* the database after run_migrations on a new file, and no session running
FreshRest ==
    /\ procs = [p \in Procs |-> Idle]
    /\ app_meta = [setup_done |-> None]
    /\ wizard = NoWizard
    /\ dhikr_log = [n \in DhikrNames |-> [d \in PrayerDates |-> NoLog]]
    /\ qada_queue = <<>>
    /\ app = NoApp
    /\ quran_log = [d \in PrayerDates |-> 0]

\* CALC_METHODS: the names parse_method accepts
CALC_METHODS == { "MuslimWorldLeague", "Egyptian", "Karachi", "UmmAlQura", "Dubai",
                  "MoonsightingCommittee", "NorthAmerica", "Kuwait", "Qatar",
                  "Singapore", "Tehran", "Turkey", "Other" }

\* parse_method: the match over the method names
parse_method(s) ==
    IF s \in CALC_METHODS THEN Ok(s) ELSE Error("Unknown calculation method")

\* parse_madhab: "Hanafi", "Shafi" or "Shafi'i"
parse_madhab(s) ==
    IF s = "Hanafi" THEN Ok("Hanafi")
    ELSE IF s \in {"Shafi", "Shafi'i"} THEN Ok("Shafi")
    ELSE Error("Unknown madhab")

\* PrayerCalculator::new validates method and madhab only
\* mutant of PrayerCalculator_new: the strings are taken as they are
PrayerCalculator_new_unchecked(c) ==
    Ok([lat_lng |-> c.loc, method_str |-> c.method, madhab_str |-> c.madhab,
        tz_offset_minutes |-> c.tz])

PrayerCalculator_new(c) ==
    IF parse_method(c.method).tag = "Err" THEN parse_method(c.method)
    ELSE IF parse_madhab(c.madhab).tag = "Err" THEN parse_madhab(c.madhab)
    ELSE Ok([lat_lng |-> c.loc, method_str |-> c.method, madhab_str |-> c.madhab,
             tz_offset_minutes |-> c.tz])

\* ---- Astronomical Provider (salah crate) ---------------------------------
\* PrayerSchedule::calculate: six UTC instants of the date, each on a whole
\* minute, given as minutes after 00:00 UTC of that date.  The value is a
\* function of (location, date).
Provider(loc, date) ==
    [fajr    |-> 300 - date,
     sunrise |-> 390 - date,
     zuhr    |-> 750,
     asr     |-> 930 + date,
     maghrib |-> 1100 + date,
     isha    |-> 1185 + date]

\* chrono::FixedOffset::east_opt(secs): Some iff -86400 < secs < 86400
FixedOffset_east_opt(secs) == (0 - SecsPerDay) < secs /\ secs < SecsPerDay

\* mutant of to_local: the offset is added without wrapping at midnight
to_local_nowrap(utcMinutes, offsetSecs) ==
    (utcMinutes * 60 + offsetSecs) * SubsecPerSec

\* to_local: utc.with_timezone(&offset).time()
to_local(utcMinutes, offsetSecs) ==
    ((utcMinutes * 60 + offsetSecs + SecsPerDay) % SecsPerDay) * SubsecPerSec

\* mutant of compute_times: a failed calculation is replaced by default
\* times (midnight for all six)
compute_times_default(calc, date, providerOk) ==
    IF parse_method(calc.method_str).tag = "Err" THEN parse_method(calc.method_str)
    ELSE IF parse_madhab(calc.madhab_str).tag = "Err" THEN parse_madhab(calc.madhab_str)
    ELSE IF ~providerOk THEN Ok([f \in FieldSet |-> 0])
    ELSE IF ~FixedOffset_east_opt(calc.tz_offset_minutes * 60)
         THEN Error("Invalid timezone offset")
    ELSE LET times == Provider(calc.lat_lng, date) IN
         Ok([f \in FieldSet |-> to_local(times[f], calc.tz_offset_minutes * 60)])

\* compute_times: providerOk is the outcome of PrayerSchedule::calculate
compute_times(calc, date, providerOk) ==
    IF parse_method(calc.method_str).tag = "Err" THEN parse_method(calc.method_str)
    ELSE IF parse_madhab(calc.madhab_str).tag = "Err" THEN parse_madhab(calc.madhab_str)
    ELSE IF ~providerOk THEN Error("Prayer calculation failed")
    ELSE IF ~FixedOffset_east_opt(calc.tz_offset_minutes * 60)
         THEN Error("Invalid timezone offset")
    ELSE LET times == Provider(calc.lat_lng, date) IN
         Ok([f \in FieldSet |-> to_local(times[f], calc.tz_offset_minutes * 60)])

\* ---- Day Cache (CacheRepo) ------------------------------------------------
NoRow == [tag |-> "NoRow"]

\* mutant of format_hm: the 12-hour clock of "%I:%M"
format_hm_12h(t) ==
    << LET h == (t \div (3600 * SubsecPerSec)) % 12 IN IF h = 0 THEN 12 ELSE h,
       (t \div (60 * SubsecPerSec)) % 60 >>

\* NaiveTime::format("%H:%M")
format_hm(t) == << t \div (3600 * SubsecPerSec), (t \div (60 * SubsecPerSec)) % 60 >>

\* is the string accepted by NaiveTime::parse_from_str(s, "%H:%M")
parses(s) == s[1] \in 0..23 /\ s[2] \in 0..59

\* parse_time of an accepted string
parse_time(s) == HMS(s[1], s[2], 0)

\* CacheRepo::get_times_for_date: Ok(None), Ok(Some(times)) or Err
get_times_for_date(c, date) ==
    IF c[date] = NoRow THEN Ok(None)
    ELSE IF \E f \in FieldSet : ~parses(c[date].row[f]) THEN Error("Bad time")
    ELSE Ok(Some([f \in FieldSet |-> parse_time(c[date].row[f])]))

\* CacheRepo::store_times: INSERT OR REPLACE of the six formatted times
store_times(c, date, times) ==
    [c EXCEPT ![date] = [tag |-> "Row", row |-> [f \in FieldSet |-> format_hm(times[f])]]]

\* mutant of clear_all_rows: only the rows of past dates are deleted
clear_all_rows_past(c) == [d \in Dates |-> IF d = 0 THEN NoRow ELSE c[d]]

\* CacheRepo::clear_all: DELETE FROM prayer_times_cache
clear_all_rows(c) == [d \in Dates |-> NoRow]


\* ---- Schedule Resolver (PrayerCalculator) ---------------------------------
\* An operation yields the cache it leaves, its result and the dates for
\* which it invoked compute_times (the Provider), in call order.
Outcome(c, r, comp) == [cache |-> c, result |-> r, computed |-> comp]

\* mutant of get_cached_or_compute: the cache is not consulted
get_cached_or_compute_recompute(calc, c, date, providerOk) ==
    LET times == compute_times(calc, date, providerOk) IN
    IF times.tag = "Err" THEN Outcome(c, times, <<date>>)
    ELSE Outcome(store_times(c, date, times.val), Ok(times.val), <<date>>)

\* mutant of get_cached_or_compute: the computed times are not stored
get_cached_or_compute_nostore(calc, c, date, providerOk) ==
    LET got == get_times_for_date(c, date) IN
    IF got.tag = "Err" THEN Outcome(c, got, <<>>)
    ELSE IF got.val.tag = "Some" THEN Outcome(c, Ok(got.val.val), <<>>)
    ELSE LET times == compute_times(calc, date, providerOk) IN
         IF times.tag = "Err" THEN Outcome(c, times, <<date>>)
         ELSE Outcome(c, Ok(times.val), <<date>>)

\* PrayerCalculator::get_cached_or_compute
get_cached_or_compute(calc, c, date, providerOk) ==
    LET got == get_times_for_date(c, date) IN
    IF got.tag = "Err" THEN Outcome(c, got, <<>>)
    ELSE IF got.val.tag = "Some" THEN Outcome(c, Ok(got.val.val), <<>>)
    ELSE LET times == compute_times(calc, date, providerOk) IN
         IF times.tag = "Err" THEN Outcome(c, times, <<date>>)
         ELSE Outcome(store_times(c, date, times.val), Ok(times.val), <<date>>)

\* mutant of ensure_loop: every date of the range is computed and stored,
\* present or not
RECURSIVE ensure_loop_refill(_, _, _, _, _, _)
ensure_loop_refill(calc, c, date, last, fails, comp) ==
    IF date > last THEN Outcome(c, Ok([unit |-> TRUE]), comp)
    ELSE LET times == compute_times(calc, date, date \notin fails) IN
         IF times.tag = "Err" THEN Outcome(c, times, Append(comp, date))
         ELSE ensure_loop_refill(calc, store_times(c, date, times.val), date + 1,
                                 last, fails, Append(comp, date))

\* the loop of PrayerCalculator::ensure_cached over the dates date..last;
\* fails is the set of dates for which PrayerSchedule::calculate fails
RECURSIVE ensure_loop(_, _, _, _, _, _)
ensure_loop(calc, c, date, last, fails, comp) ==
    IF date > last THEN Outcome(c, Ok([unit |-> TRUE]), comp)
    ELSE LET got == get_times_for_date(c, date) IN
         IF got.tag = "Err" THEN Outcome(c, got, comp)
         ELSE IF got.val.tag = "Some"
              THEN ensure_loop(calc, c, date + 1, last, fails, comp)
         ELSE LET times == compute_times(calc, date, date \notin fails) IN
              IF times.tag = "Err" THEN Outcome(c, times, Append(comp, date))
              ELSE ensure_loop(calc, store_times(c, date, times.val), date + 1,
                               last, fails, Append(comp, date))

\* mutant of ensure_cached: a failure rolls the stored dates back
ensure_cached_rollback(calc, c, now, days_ahead, fails) ==
    LET out == ensure_loop(calc, c, now, now + days_ahead, fails, <<>>) IN
    IF out.result.tag = "Err" THEN Outcome(c, out.result, out.computed) ELSE out

\* PrayerCalculator::ensure_cached, called on the day now
ensure_cached(calc, c, now, days_ahead, fails) ==
    ensure_loop(calc, c, now, now + days_ahead, fails, <<>>)

\* NaiveDate::succ_opt(...).unwrap_or(now_date)
succ_or_same(date) == IF date = NaiveDateMax THEN date ELSE date + 1

\* the schedule array of get_next_prayer: the times of the five prayers
schedule(times) ==
    << times.fajr, times.zuhr, times.asr, times.maghrib, times.isha >>

\* mutant of get_next_prayer: a prayer whose time equals now_time is not
\* skipped (>= for >)
get_next_prayer_ge(calc, c, now_date, now_time, fails) ==
    LET first == get_cached_or_compute(calc, c, now_date, now_date \notin fails) IN
    IF first.result.tag = "Err" THEN first
    ELSE LET sched == schedule(first.result.val)
             later == {i \in 1..Len(sched) : sched[i] >= now_time}
         IN
         IF later # {}
         THEN LET i == CHOOSE k \in later : \A j \in later : k <= j IN
              Outcome(first.cache,
                      Ok(Some([prayer |-> PrayerTypes[i],
                               secs |-> num_seconds(sched[i] - now_time)])),
                      first.computed)
         ELSE LET tomorrow == succ_or_same(now_date)
                  second == get_cached_or_compute(calc, first.cache, tomorrow,
                                                  tomorrow \notin fails)
              IN
              IF second.result.tag = "Err"
              THEN Outcome(second.cache, second.result, first.computed \o second.computed)
              ELSE LET midnight_to_fajr == second.result.val.fajr - HMS(0, 0, 0)
                       remaining_today == HMS(23, 59, 59) - now_time
                   IN
                   Outcome(second.cache,
                           Ok(Some([prayer |-> "Fajr",
                                    secs |-> num_seconds(remaining_today)
                                             + num_seconds(midnight_to_fajr) + 1])),
                           first.computed \o second.computed)

\* mutant of get_next_prayer: the countdown to tomorrow's Fajr is taken from
\* today's Fajr and without the + 1
get_next_prayer_today_fajr(calc, c, now_date, now_time, fails) ==
    LET first == get_cached_or_compute(calc, c, now_date, now_date \notin fails) IN
    IF first.result.tag = "Err" THEN first
    ELSE LET sched == schedule(first.result.val)
             later == {i \in 1..Len(sched) : sched[i] > now_time}
         IN
         IF later # {}
         THEN LET i == CHOOSE k \in later : \A j \in later : k <= j IN
              Outcome(first.cache,
                      Ok(Some([prayer |-> PrayerTypes[i],
                               secs |-> num_seconds(sched[i] - now_time)])),
                      first.computed)
         ELSE LET midnight_to_fajr == first.result.val.fajr - HMS(0, 0, 0)
                  remaining_today == HMS(23, 59, 59) - now_time
              IN
              Outcome(first.cache,
                      Ok(Some([prayer |-> "Fajr",
                               secs |-> num_seconds(remaining_today)
                                        + num_seconds(midnight_to_fajr)])),
                      first.computed)

\* mutant of get_next_prayer: None once the five prayers of the day have passed
get_next_prayer_none(calc, c, now_date, now_time, fails) ==
    LET first == get_cached_or_compute(calc, c, now_date, now_date \notin fails) IN
    IF first.result.tag = "Err" THEN first
    ELSE LET sched == schedule(first.result.val)
             later == {i \in 1..Len(sched) : sched[i] > now_time}
         IN
         IF later # {}
         THEN LET i == CHOOSE k \in later : \A j \in later : k <= j IN
              Outcome(first.cache,
                      Ok(Some([prayer |-> PrayerTypes[i],
                               secs |-> num_seconds(sched[i] - now_time)])),
                      first.computed)
         ELSE Outcome(first.cache, Ok(None), first.computed)

\* mutant of get_next_prayer: the countdown to a prayer of today is the time
\* elapsed, now_time - time
get_next_prayer_elapsed(calc, c, now_date, now_time, fails) ==
    LET first == get_cached_or_compute(calc, c, now_date, now_date \notin fails) IN
    IF first.result.tag = "Err" THEN first
    ELSE LET sched == schedule(first.result.val)
             later == {i \in 1..Len(sched) : sched[i] > now_time}
         IN
         IF later # {}
         THEN LET i == CHOOSE k \in later : \A j \in later : k <= j IN
              Outcome(first.cache,
                      Ok(Some([prayer |-> PrayerTypes[i],
                               secs |-> num_seconds(now_time - sched[i])])),
                      first.computed)
         ELSE LET tomorrow == succ_or_same(now_date)
                  second == get_cached_or_compute(calc, first.cache, tomorrow,
                                                  tomorrow \notin fails)
              IN
              IF second.result.tag = "Err"
              THEN Outcome(second.cache, second.result, first.computed \o second.computed)
              ELSE LET midnight_to_fajr == second.result.val.fajr - HMS(0, 0, 0)
                       remaining_today == HMS(23, 59, 59) - now_time
                   IN
                   Outcome(second.cache,
                           Ok(Some([prayer |-> "Fajr",
                                    secs |-> num_seconds(remaining_today)
                                             + num_seconds(midnight_to_fajr) + 1])),
                           first.computed \o second.computed)

\* PrayerCalculator::get_next_prayer
get_next_prayer(calc, c, now_date, now_time, fails) ==
    LET first == get_cached_or_compute(calc, c, now_date, now_date \notin fails) IN
    IF first.result.tag = "Err" THEN first
    ELSE LET sched == schedule(first.result.val)
             later == {i \in 1..Len(sched) : sched[i] > now_time}
         IN
         IF later # {}
         THEN LET i == CHOOSE k \in later : \A j \in later : k <= j IN
              Outcome(first.cache,
                      Ok(Some([prayer |-> PrayerTypes[i],
                               secs |-> num_seconds(sched[i] - now_time)])),
                      first.computed)
         ELSE LET tomorrow == succ_or_same(now_date)
                  second == get_cached_or_compute(calc, first.cache, tomorrow,
                                                  tomorrow \notin fails)
              IN
              IF second.result.tag = "Err"
              THEN Outcome(second.cache, second.result, first.computed \o second.computed)
              ELSE LET midnight_to_fajr == second.result.val.fajr - HMS(0, 0, 0)
                       remaining_today == HMS(23, 59, 59) - now_time
                   IN
                   Outcome(second.cache,
                           Ok(Some([prayer |-> "Fajr",
                                    secs |-> num_seconds(remaining_today)
                                             + num_seconds(midnight_to_fajr) + 1])),
                           first.computed \o second.computed)

\* ---- inputs ---------------------------------------------------------------
\* the local times of day at which get_next_prayer is asked
NowTimes == { HMS(4, 59, 59) + (SubsecPerSec - 1),
              HMS(5, 0, 0),
              HMS(6, 0, 0),
              HMS(19, 45, 1),
              HMS(23, 59, 59),
              HMS(23, 59, 59) + (SubsecPerSec - 1) }

\* PrayerCalculator::new(...)? followed by a call on the calculator, out:
\* a construction error ends the command before anything else happens
WithCalculator(c, out) ==
    LET made == PrayerCalculator_new(config) IN
    IF made.tag = "Err" THEN Outcome(c, made, <<>>) ELSE out

\* the calculator that PrayerCalculator::new returned for the configuration
Calculator == PrayerCalculator_new(config).val

Call(op, date, now, days, out) ==
    [op |-> op, date |-> date, now |-> now, days |-> days,
     result |-> out.result, computed |-> out.computed]

Init ==
    /\ config \in Contexts
    /\ cache = [d \in Dates |-> NoRow]
    /\ today = 0
    /\ call = Call("init", 0, 0, 0, Outcome(cache, Ok([unit |-> TRUE]), <<>>))
    /\ next_prayer_info = None
    /\ prayers = [d \in PrayerDates |-> NoRecords]
    /\ FreshRest

\* AppConfig::load: the Context is whatever config.toml holds at start-up
AppConfig_load ==
    \E c \in Contexts :
        /\ config' = c
        /\ call' = Call("load", 0, 0, 0, Outcome(cache, Ok([unit |-> TRUE]), <<>>))
        /\ UNCHANGED <<rest, prayers, cache, today, next_prayer_info>>

\* chrono::Local::now(): the local calendar day advances
Midnight ==
    /\ today < MaxToday
    /\ today' = today + 1
    /\ call' = Call("midnight", 0, 0, 0, Outcome(cache, Ok([unit |-> TRUE]), <<>>))
    /\ UNCHANGED <<rest, prayers, config, cache, next_prayer_info>>

\* mutant of TimesForDate: the date is resolved through the Day Cache
TimesForDate_cached ==
    \E date \in Dates, providerOk \in BOOLEAN :
        LET out == WithCalculator(cache,
                       get_cached_or_compute(Calculator, cache, date, providerOk)) IN
        /\ call' = Call("times_for_date", date, 0, 0, out)
        /\ cache' = out.cache
        /\ UNCHANGED <<rest, prayers, config, today, next_prayer_info>>

\* handle_times: calc.times_for_date(date)
TimesForDate ==
    \E date \in Dates, providerOk \in BOOLEAN :
        LET out == WithCalculator(cache,
                       Outcome(cache, compute_times(Calculator, date, providerOk),
                                             <<date>>)) IN
        /\ call' = Call("times_for_date", date, 0, 0, out)
        /\ UNCHANGED <<rest, prayers, config, cache, today, next_prayer_info>>

GetCachedOrCompute ==
    \E date \in Dates, providerOk \in BOOLEAN :
        LET out == WithCalculator(cache,
                       get_cached_or_compute(Calculator, cache, date, providerOk)) IN
        /\ cache' = out.cache
        /\ call' = Call("get_cached_or_compute", date, 0, 0, out)
        /\ UNCHANGED <<rest, prayers, config, today, next_prayer_info>>

EnsureCached ==
    \E days_ahead \in 0..MaxAhead :
      \E fails \in SUBSET (today..(today + days_ahead)) :
        LET out == WithCalculator(cache,
                       ensure_cached(Calculator, cache, today, days_ahead, fails)) IN
        /\ cache' = out.cache
        /\ call' = Call("ensure_cached", today, 0, days_ahead, out)
        /\ UNCHANGED <<rest, prayers, config, today, next_prayer_info>>

\* handle_times: get_next_prayer(conn, today, now_time)
GetNextPrayer ==
    \E now_time \in NowTimes :
      \E fails \in SUBSET {today, today + 1} :
        LET out == WithCalculator(cache,
                       get_next_prayer(Calculator, cache, today, now_time, fails)) IN
        /\ cache' = out.cache
        /\ call' = Call("get_next_prayer", today, now_time, 0, out)
        /\ UNCHANGED <<rest, prayers, config, today, next_prayer_info>>

\* App::tick: if the calculator can be made,
\* next_prayer_info = get_next_prayer(today, now).ok().flatten()
AppTick ==
    \E now_time \in NowTimes :
      \E fails \in SUBSET {today, today + 1} :
        LET out == WithCalculator(cache,
                       get_next_prayer(Calculator, cache, today, now_time, fails)) IN
        /\ cache' = out.cache
        /\ next_prayer_info' = IF PrayerCalculator_new(config).tag = "Err"
                               THEN next_prayer_info
                               ELSE IF out.result.tag = "Ok" THEN out.result.val ELSE None
        /\ call' = Call("tick", today, now_time, 0, out)
        /\ UNCHANGED <<rest, prayers, config, today>>

\* CacheRepo::clear_all; the call records the number of rows the DELETE removed
ClearAll ==
    /\ cache' = clear_all_rows(cache)
    /\ call' = Call("clear_all", 0, 0, 0,
                    Outcome(cache',
                            Ok([deleted |-> Cardinality({d \in Dates : cache[d] # NoRow})]),
                            <<>>))
    /\ UNCHANGED <<rest, prayers, config, today, next_prayer_info>>

Next ==
    \/ AppConfig_load
    \/ Midnight
    \/ TimesForDate
    \/ GetCachedOrCompute
    \/ EnsureCached
    \/ GetNextPrayer
    \/ ClearAll

Spec == Init /\ [][Next]_vars

\* the interactive session: the periodic tick of the dashboard
NextTick ==
    \/ AppConfig_load
    \/ Midnight
    \/ AppTick
    \/ ClearAll

SpecTick == Init /\ [][NextTick]_vars


\* A row of prayer_times_cache whose fajr column was changed outside the
\* program (the columns are unconstrained TEXT) to a string that
\* NaiveTime::parse_from_str rejects, such as "24:00".
ExternalRowEdit ==
    \E d \in Dates :
        /\ cache[d] # NoRow
        /\ cache' = [cache EXCEPT ![d].row.fajr = <<24, 0>>]
        /\ call' = Call("external_edit", d, 0, 0, Outcome(cache', Ok([unit |-> TRUE]), <<>>))
        /\ UNCHANGED <<rest, prayers, config, today, next_prayer_info>>

\* the cache engine over a database file that something else may have edited
NextCorrupt ==
    \/ ExternalRowEdit
    \/ GetCachedOrCompute
    \/ EnsureCached
    \/ ClearAll

SpecCorrupt == Init /\ [][NextCorrupt]_vars

\* What config.toml can hold in [salah]: method and madhab are free strings
\* and timezone_offset any i32; here a known and an unknown method, two
\* accepted madhabs and an unknown one, and offsets at and next to +-24h.
ContextInputs ==
    { [loc |-> "London", method |-> m, madhab |-> h, tz |-> z] :
        m \in {"MuslimWorldLeague", "ISNA"},
        h \in {"Hanafi", "Shafi'i", "Maliki"},
        z \in {0 - 1440, 0 - 1439, 0, 1439, 1440} }

InitContext ==
    /\ config \in ContextInputs
    /\ cache = [d \in Dates |-> NoRow]
    /\ today = 0
    /\ call = Call("init", 0, 0, 0, Outcome(cache, Ok([unit |-> TRUE]), <<>>))
    /\ next_prayer_info = None
    /\ prayers = [d \in PrayerDates |-> NoRecords]
    /\ FreshRest

\* the four operations of PrayerCalculator under one loaded configuration
NextContext ==
    \/ TimesForDate
    \/ GetCachedOrCompute
    \/ EnsureCached
    \/ GetNextPrayer
    \/ ClearAll

SpecContext == InitContext /\ [][NextContext]_vars

\* ---- streak (StatsRepo) ---------------------------------------------------
\* The rows one date can hold. With is_qada = 0: none; the five pending rows
\* of ensure_today_rows; those rows after mark_status set some of them to
\* done or missed. UNIQUE(prayer_type, date, is_qada) also admits a second
\* row per prayer with is_qada = 1: a day of four done whose fifth prayer is
\* done only as a qada row.
DayRecords ==
    { NoRecords,
      [NoRecords EXCEPT ![0] = [pt \in PrayerTypeSet |-> "pending"]],
      [NoRecords EXCEPT ![0] = [pt \in PrayerTypeSet |->
                                  IF pt = "Isha" THEN "pending" ELSE "done"]],
      [NoRecords EXCEPT ![0] = [pt \in PrayerTypeSet |->
                                  IF pt = "Fajr" THEN "missed" ELSE "done"]],
      [NoRecords EXCEPT ![0] = [pt \in PrayerTypeSet |-> "done"]],
      [NoRecords EXCEPT ![0] = [pt \in PrayerTypeSet |->
                                  IF pt = "Isha" THEN "pending" ELSE "done"],
                        ![1] = [pt \in PrayerTypeSet |->
                                  IF pt \in {"Isha", "Fajr"} THEN "done" ELSE "absent"]] }

\* mutant of full_dates: the rows with is_qada = 1 are counted too
full_dates_qada(p) ==
    { d \in DOMAIN p :
        Cardinality({r \in {0, 1} \X PrayerTypeSet : p[d][r[1]][r[2]] = "done"}) >= 5 }

\* SELECT date FROM prayers WHERE is_qada = 0 GROUP BY date
\* HAVING SUM(CASE WHEN status = 'done' THEN 1 ELSE 0 END) >= 5
full_dates(p) ==
    { d \in DOMAIN p :
        Cardinality({r \in {0} \X PrayerTypeSet : p[d][r[1]][r[2]] = "done"}) >= 5 }

\* ORDER BY date DESC
RECURSIVE order_desc(_)
order_desc(S) ==
    IF S = {} THEN <<>>
    ELSE LET m == CHOOSE x \in S : \A y \in S : y <= x IN
         <<m>> \o order_desc(S \ {m})

\* sorted.sort()
RECURSIVE sort_asc(_)
sort_asc(S) ==
    IF S = {} THEN <<>>
    ELSE LET m == CHOOSE x \in S : \A y \in S : x <= y IN
         <<m>> \o sort_asc(S \ {m})

\* NaiveDate::pred_opt(...).unwrap_or(check_date)
pred_or_same(date) == IF date = 0 - NaiveDateMax THEN date ELSE date - 1

\* mutant of current_loop: a day that is not full is skipped instead of
\* ending the walk
RECURSIVE current_loop_skip(_, _, _, _, _)
current_loop_skip(dates, i, now, check_date, current) ==
    IF i > Len(dates) THEN current
    ELSE current_loop_skip(dates, i + 1, now, pred_or_same(dates[i]), current + 1)

\* the for loop of calculate_streak over dates[i..]
RECURSIVE current_loop(_, _, _, _, _)
current_loop(dates, i, now, check_date, current) ==
    IF i > Len(dates) THEN current
    ELSE LET d == dates[i] IN
         IF d = check_date \/ d = now
         THEN IF d = check_date
              THEN current_loop(dates, i + 1, now, pred_or_same(check_date), current + 1)
              ELSE current_loop(dates, i + 1, now, check_date, current)
         ELSE current

\* mutant of best_loop: a calendar gap does not reset the run
RECURSIVE best_loop_nogap(_, _, _, _)
best_loop_nogap(sorted, i, best, current) ==
    IF i > Len(sorted) THEN IF best >= current THEN best ELSE current
    ELSE best_loop_nogap(sorted, i + 1,
                         IF best >= current + 1 THEN best ELSE current + 1, current + 1)

\* the for loop of calculate_best_streak over sorted[i..]
RECURSIVE best_loop(_, _, _, _)
best_loop(sorted, i, best, current) ==
    IF i > Len(sorted) THEN IF best >= current THEN best ELSE current
    ELSE LET run == IF sorted[i] = succ_or_same(sorted[i - 1]) THEN current + 1 ELSE 1 IN
         best_loop(sorted, i + 1, IF best >= run THEN best ELSE run, run)

\* mutant of calculate_best_streak: no early return for an empty list
calculate_best_streak_noempty(dates) ==
    best_loop(sort_asc({dates[i] : i \in 1..Len(dates)}), 2, 0, 1)

\* calculate_best_streak(&dates)
calculate_best_streak(dates) ==
    IF Len(dates) = 0 THEN 0
    ELSE best_loop(sort_asc({dates[i] : i \in 1..Len(dates)}), 2, 0, 1)

\* mutant of calculate_streak: the best streak leaves out the latest full day
calculate_streak_best_past(p, now) ==
    LET dates == order_desc(full_dates(p)) IN
    [current |-> current_loop(dates, 1, now, now, 0),
     best |-> calculate_best_streak(SubSeq(dates, 2, Len(dates)))]

\* StatsRepo::calculate_streak on the day now
calculate_streak(p, now) ==
    LET dates == order_desc(full_dates(p)) IN
    [current |-> current_loop(dates, 1, now, now, 0),
     best |-> calculate_best_streak(dates)]

\* handle_stats / App::load: StatsRepo::calculate_streak(conn)
CalculateStreak ==
    /\ call' = Call("calculate_streak", today, 0, 0,
                    Outcome(cache, Ok(calculate_streak(prayers, today)), <<>>))
    /\ UNCHANGED <<rest, prayers, config, cache, today, next_prayer_info>>

\* any history of completion records up to today
InitStreak ==
    /\ config \in {c \in Contexts : c.tz = 0}
    /\ cache = [d \in Dates |-> NoRow]
    /\ today = 0
    /\ call = Call("init", 0, 0, 0, Outcome(cache, Ok([unit |-> TRUE]), <<>>))
    /\ next_prayer_info = None
    /\ prayers \in [PrayerDates -> DayRecords]
    /\ FreshRest
    /\ \A d \in PrayerDates : d > today => prayers[d] = NoRecords

\* the statistics are asked for on any day; a new day starts without records
NextStreak ==
    \/ CalculateStreak
    \/ Midnight

SpecStreak == InitStreak /\ [][NextStreak]_vars

\* ---- two callers of get_cached_or_compute ---------------------------------
\* The first statement of get_cached_or_compute for caller p:
\* CacheRepo::get_times_for_date, which returns at once on a hit or an error;
\* on a miss compute_times follows, which touches nothing shared, and the
\* caller is left in front of store_times.
RaceGet(p) ==
    \E date \in Dates, providerOk \in BOOLEAN :
        /\ procs[p].pc \in {"idle", "done"}
        /\ PrayerCalculator_new(config).tag = "Ok"
        /\ LET got == get_times_for_date(cache, date)
               times == compute_times(Calculator, date, providerOk) IN
           procs' = [procs EXCEPT ![p] =
                       IF got.tag = "Err"
                       THEN [pc |-> "done", date |-> date, times |-> None, result |-> got]
                       ELSE IF got.val.tag = "Some"
                       THEN [pc |-> "done", date |-> date, times |-> None,
                             result |-> Ok(got.val.val)]
                       ELSE IF times.tag = "Err"
                       THEN [pc |-> "done", date |-> date, times |-> None, result |-> times]
                       ELSE [pc |-> "store", date |-> date, times |-> Some(times.val),
                             result |-> None]]
        /\ UNCHANGED <<config, cache, today, call, next_prayer_info, prayers, app_meta,
                       wizard, dhikr_log, qada_queue, app, quran_log>>

\* mutant of RaceStore: a plain INSERT, which fails when the row exists
RaceStore_insert(p) ==
    /\ procs[p].pc = "store"
    /\ cache' = IF cache[procs[p].date] = NoRow
                THEN store_times(cache, procs[p].date, procs[p].times.val)
                ELSE cache
    /\ procs' = [procs EXCEPT ![p] =
                   [pc |-> "done", date |-> procs[p].date, times |-> procs[p].times,
                    result |-> IF cache[procs[p].date] = NoRow
                               THEN Ok(procs[p].times.val)
                               ELSE Error("UNIQUE constraint failed")]]
    /\ UNCHANGED <<config, today, call, next_prayer_info, prayers, app_meta,
                   wizard, dhikr_log, qada_queue, app, quran_log>>

\* The rest of get_cached_or_compute for caller p: CacheRepo::store_times
\* (INSERT OR REPLACE) and the return of the computed times.
RaceStore(p) ==
    /\ procs[p].pc = "store"
    /\ cache' = store_times(cache, procs[p].date, procs[p].times.val)
    /\ procs' = [procs EXCEPT ![p] =
                   [pc |-> "done", date |-> procs[p].date, times |-> procs[p].times,
                    result |-> Ok(procs[p].times.val)]]
    /\ UNCHANGED <<config, today, call, next_prayer_info, prayers, app_meta,
                   wizard, dhikr_log, qada_queue, app, quran_log>>

\* two callers on one database file, each statement atomic
NextRace ==
    \/ \E p \in Procs : RaceGet(p)
    \/ \E p \in Procs : RaceStore(p)

SpecRace == Init /\ [][NextRace]_vars

\* ---- main, setup wizard and commands --------------------------------------
\* the look-ahead of ensure_cached in run_setup_tui (90 days) and in main
\* before the TUI starts (7 days), both scaled to the dates of the model
SetupDaysAhead == MaxAhead
TuiDaysAhead == MaxAhead

\* the offsets typed at the TimezoneOffset step; parse_tz puts no limit on
\* the hours, so "+24" is accepted
TzInputs == {0, 600, 1440}

\* the subcommands of main that go through ensure_setup, and the TUI
Commands == {"times", "tui"}

\* SetupWizard::new: the wizard starts at Welcome with the values of the
\* existing configuration; then is what main does once run_setup_tui returns
SetupWizard_new(existing, then) ==
    [step |-> "Welcome", tz_minutes |-> existing.tz, then |-> then]

\* SetupWizard::advance
advance(step) ==
    CASE step = "Welcome" -> "LocationName"
      [] step = "LocationName" -> "Latitude"
      [] step = "Latitude" -> "Longitude"
      [] step = "Longitude" -> "CalcMethod"
      [] step = "CalcMethod" -> "Madhab"
      [] step = "Madhab" -> "TimezoneOffset"
      [] step = "TimezoneOffset" -> "HijriOffset"
      [] step = "HijriOffset" -> "Confirm"
      [] step = "Confirm" -> "Confirm"

\* SetupWizard::go_back; at Welcome the step stays and should_quit is set
go_back(step) ==
    CASE step = "Welcome" -> "Welcome"
      [] step = "LocationName" -> "Welcome"
      [] step = "Latitude" -> "LocationName"
      [] step = "Longitude" -> "Latitude"
      [] step = "CalcMethod" -> "Longitude"
      [] step = "Madhab" -> "CalcMethod"
      [] step = "TimezoneOffset" -> "Madhab"
      [] step = "HijriOffset" -> "TimezoneOffset"
      [] step = "Confirm" -> "HijriOffset"

\* SetupWizard::build_config: the method is CALC_METHODS[method_idx] (index 0
\* when the existing method is not in the list), the madhab "Shafi" only if
\* the existing one is "Shafi", the offset the one entered
build_config(w, existing) ==
    [loc |-> existing.loc,
     method |-> IF existing.method \in CALC_METHODS THEN existing.method
                ELSE "MuslimWorldLeague",
     madhab |-> IF existing.madhab = "Shafi" THEN "Shafi" ELSE "Hanafi",
     tz |-> w.tz_minutes]

\* mutant of ensure_today_rows: INSERT OR REPLACE of five pending rows
ensure_today_rows_replace(p, date) ==
    [p EXCEPT ![date][0] = [pt \in PrayerTypeSet |-> "pending"]]

\* PrayerRepo::ensure_today_rows: INSERT OR IGNORE of five pending rows
ensure_today_rows(p, date) ==
    [p EXCEPT ![date][0] =
        [pt \in PrayerTypeSet |-> IF p[date][0][pt] = "absent" THEN "pending"
                                   ELSE p[date][0][pt]]]

\* a row that exists in the prayers table
present(r) == r.status # "absent"

\* PrayerRepo::get_by_date: the non-qada rows of the date in prayer order
get_by_date(p, date) ==
    SelectSeq([i \in 1..Len(PrayerTypes) |->
                  [prayer_type |-> PrayerTypes[i], status |-> p[date][0][PrayerTypes[i]]]],
              present)

\* the prayer types of App.prayers, the only field of its entries that the
\* key handlers read
prayer_types(rows) == [i \in 1..Len(rows) |-> rows[i].prayer_type]

\* handle_times: the calculator, today's times, then the next prayer
handle_times(cfg, c, now, now_time, fails) ==
    LET made == PrayerCalculator_new(cfg) IN
    IF made.tag = "Err" THEN Outcome(c, made, <<>>)
    ELSE LET first == get_cached_or_compute(made.val, c, now, now \notin fails) IN
         IF first.result.tag = "Err" THEN first
         ELSE LET nxt == get_next_prayer(made.val, first.cache, now, now_time, fails) IN
              Outcome(nxt.cache, nxt.result, first.computed \o nxt.computed)

\* main without subcommand, up to the first frame: ensure_cached for the
\* coming days with its error dropped, then App::new and App::load, which
\* fails (and ends the program) only if the calculator cannot be made
tui_start(cfg, c, now, now_time, fails) ==
    LET made == PrayerCalculator_new(cfg) IN
    IF made.tag = "Err" THEN Outcome(c, made, <<>>)
    ELSE LET pre == ensure_cached(made.val, c, now, TuiDaysAhead, fails)
             first == get_cached_or_compute(made.val, pre.cache, now, now \notin fails)
             nxt == get_next_prayer(made.val, first.cache, now, now_time, fails) IN
         Outcome(nxt.cache,
                 Ok(IF nxt.result.tag = "Ok" THEN nxt.result.val ELSE None),
                 pre.computed \o first.computed \o nxt.computed)

\* mutant of run_setup_tui_confirmed: the cache is not cleared
run_setup_tui_confirmed_noclear(new_config, c, now, fails) ==
    LET made == PrayerCalculator_new(new_config) IN
    IF made.tag = "Err" THEN Outcome(c, made, <<>>)
    ELSE ensure_cached(made.val, c, now, SetupDaysAhead, fails)

\* run_setup_tui once the wizard is confirmed and the configuration saved:
\* CacheRepo::clear_all, PrayerCalculator::new, ensure_cached
run_setup_tui_confirmed(new_config, c, now, fails) ==
    LET made == PrayerCalculator_new(new_config) IN
    IF made.tag = "Err" THEN Outcome(clear_all_rows(c), made, <<>>)
    ELSE ensure_cached(made.val, clear_all_rows(c), now, SetupDaysAhead, fails)

\* What main does after handle_setup or ensure_setup returned Ok, under the
\* configuration cfg and with the outcome done of the wizard: nothing more
\* for the setup command, the subcommand otherwise.
Continue(then, cfg, done, now_time, fails) ==
    CASE then = "exit" ->
           /\ cache' = done.cache
           /\ call' = Call("run_setup_tui", today, 0, SetupDaysAhead, done)
           /\ UNCHANGED <<prayers, app, next_prayer_info>>
      [] then = "times" ->
           \E out \in {handle_times(cfg, done.cache, today, now_time, fails)} :
           /\ cache' = out.cache
           /\ call' = Call("times", today, now_time, 0, out)
           /\ UNCHANGED <<prayers, app, next_prayer_info>>
      [] then = "tui" ->
           \E out \in {tui_start(cfg, done.cache, today, now_time, fails)} :
           /\ cache' = out.cache
           /\ call' = Call("tui", today, now_time, 0, out)
           /\ prayers' = ensure_today_rows(prayers, today)
           /\ app' = IF out.result.tag = "Err" THEN NoApp
                     ELSE [NoApp EXCEPT
                             !.running = TRUE, !.config = cfg, !.today_str = today,
                             !.prayers = prayer_types(get_by_date(prayers', today)),
                             !.dhikr_defs = get_active_definitions,
                             !.dhikr_logs = get_log_for_date(dhikr_log, today),
                             !.quran_today = quran_log[today]]
           /\ next_prayer_info' = IF out.result.tag = "Err" THEN next_prayer_info
                                  ELSE out.result.val

\* mutant of handle_setup: the wizard is run whatever setup_done is
handle_setup_always(reset, done) == "run_setup_tui"

\* handle_setup: without reset and with setup_done = "1" it prints that the
\* system is already configured and returns; otherwise it runs the wizard
handle_setup(reset, done) ==
    IF ~reset /\ done = Some("1") THEN "already configured" ELSE "run_setup_tui"

\* main with the setup subcommand: handle_setup(conn, config, reset)
MainSetup ==
    \E reset \in BOOLEAN :
        /\ wizard.step = "Closed"
        /\ call' = Call(IF reset THEN "setup --reset" ELSE "setup", today, 0, 0,
                        Outcome(cache, Ok([unit |-> TRUE]), <<>>))
        /\ wizard' = IF handle_setup(reset, app_meta.setup_done) = "run_setup_tui"
                     THEN SetupWizard_new(config, "exit")
                     ELSE wizard
        /\ UNCHANGED <<config, cache, today, next_prayer_info, prayers, procs, app_meta,
                       dhikr_log, qada_queue, app, quran_log>>

\* main with another subcommand or none: ensure_setup, then the command;
\* when setup_done is not "1" handle_setup(conn, config, false) opens the
\* wizard first
MainCommand ==
    \E cmd \in Commands, now_time \in {HMS(6, 0, 0)}, fails \in SUBSET {today} :
        /\ wizard.step = "Closed"
        /\ IF /\ app_meta.setup_done # Some("1")
              /\ handle_setup(FALSE, app_meta.setup_done) = "run_setup_tui"
           THEN /\ wizard' = SetupWizard_new(config, cmd)
                /\ call' = Call("ensure_setup", today, 0, 0,
                                Outcome(cache, Ok([unit |-> TRUE]), <<>>))
                /\ UNCHANGED <<cache, prayers, app, next_prayer_info>>
           ELSE /\ Continue(cmd, config, Outcome(cache, Ok([unit |-> TRUE]), <<>>),
                            now_time, fails)
                /\ UNCHANGED wizard
        /\ UNCHANGED <<config, today, procs, app_meta, dhikr_log, qada_queue, quran_log>>

\* One key press in run_setup_tui (Enter with a valid entry, or Esc), with
\* all that follows it before the next event is read. Esc at Welcome sets
\* should_quit: the loop ends and run_setup_tui returns Ok. Enter at Confirm
\* sets confirmed: the configuration is built and saved, the cache cleared,
\* the calculator made, ensure_cached run and setup_done set to "1", each
\* step ending the program on error. After an Ok return main goes on.
WizardKey ==
    \E key \in {"Enter", "Esc"}, tz \in TzInputs, now_time \in {HMS(6, 0, 0)},
       fails \in SUBSET (today..(today + SetupDaysAhead)) :
        /\ wizard.step # "Closed"
        /\ IF key = "Esc" /\ wizard.step = "Welcome"
           THEN /\ wizard' = NoWizard
                /\ Continue(wizard.then, config,
                            Outcome(cache, Ok([unit |-> TRUE]), <<>>), now_time, fails)
                /\ UNCHANGED <<config, app_meta>>
           ELSE IF key = "Enter" /\ wizard.step = "Confirm"
           THEN \E new_config \in {build_config(wizard, config)} :
                \E out \in {run_setup_tui_confirmed(new_config, cache, today, fails)} :
                /\ wizard' = NoWizard
                /\ config' = new_config
                /\ IF out.result.tag = "Err"
                   THEN /\ cache' = out.cache
                        /\ call' = Call("run_setup_tui", today, 0, SetupDaysAhead, out)
                        /\ UNCHANGED <<app_meta, prayers, app, next_prayer_info>>
                   ELSE /\ app_meta' = [app_meta EXCEPT !.setup_done = Some("1")]
                        /\ Continue(wizard.then, new_config, out, now_time, fails)
           ELSE /\ wizard' = [wizard EXCEPT
                                !.step = IF key = "Esc" THEN go_back(wizard.step)
                                         ELSE advance(wizard.step),
                                !.tz_minutes = IF key = "Enter"
                                                  /\ wizard.step = "TimezoneOffset"
                                               THEN tz ELSE wizard.tz_minutes]
                /\ UNCHANGED <<config, cache, call, app_meta, prayers, app,
                               next_prayer_info>>
        /\ UNCHANGED <<today, procs, dhikr_log, qada_queue, quran_log>>

NextSetup ==
    \/ MainSetup
    \/ MainCommand
    \/ WizardKey
    \/ Midnight

SpecSetup == Init /\ [][NextSetup]_vars

\* ---- dhikr ----------------------------------------------------------------
\* the target of the built-in counter (99 in seed_builtins), scaled
TasbihTarget == 2

\* the counts the model lets a counter reach
MaxCount == 2

\* seed_builtins: the built-in definitions, by name
DhikrDefs ==
    [n \in DhikrNames |->
        IF n = "Post-Salah Tasbih"
        THEN [dhikr_type |-> "Counter", target_count |-> TasbihTarget]
        ELSE [dhikr_type |-> "Checkbox", target_count |-> 1]]

\* DhikrRepo::find_by_name
find_by_name(name) ==
    IF name \in DhikrNames THEN Some(name) ELSE None

\* DhikrRepo::upsert_log: INSERT ... ON CONFLICT(dhikr_id, date) DO UPDATE
upsert_log(log, name, date, count, completed) ==
    [log EXCEPT ![name][date] = [tag |-> "Log", count |-> count, completed |-> completed]]

\* toggle_dhikr_by_name: a checkbox is flipped (an absent log counts as not
\* done), a counter is increased by extra_count, or by 1, and is completed
\* once it reaches its target
toggle_dhikr_by_name(log, name, date, extra_count) ==
    LET def == find_by_name(name) IN
    IF def.tag = "None" THEN [log |-> log, result |-> Error("Dhikr not found")]
    ELSE LET current == log[name][date] IN
         IF DhikrDefs[name].dhikr_type = "Checkbox"
         THEN LET was_done == IF current = NoLog THEN FALSE ELSE current.completed
                  now_done == ~was_done IN
              [log |-> upsert_log(log, name, date, 1, now_done),
               result |-> Ok([unit |-> TRUE])]
         ELSE LET current_count == IF current = NoLog THEN 0 ELSE current.count
                  add == IF extra_count.tag = "Some" THEN extra_count.val ELSE 1
                  new_count == current_count + add
                  completed == new_count >= DhikrDefs[name].target_count IN
              [log |-> upsert_log(log, name, date, new_count, completed),
               result |-> Ok([unit |-> TRUE])]

\* the dhikr subcommands that write: morning, evening, mark <name> [--count]
DhikrActions ==
    {[cmd |-> "dhikr morning", name |-> "Morning Adhkar", count |-> None],
     [cmd |-> "dhikr evening", name |-> "Evening Adhkar", count |-> None]}
    \cup [cmd : {"dhikr mark"}, name : {"Post-Salah Tasbih", "Witr"}, count : {None, Some(2)}]

\* handle_dhikr
HandleDhikr ==
    \E action \in DhikrActions :
        LET current == IF action.name \in DhikrNames THEN dhikr_log[action.name][today]
                       ELSE NoLog
            out == toggle_dhikr_by_name(dhikr_log, action.name, today, action.count) IN
        /\ ( current # NoLog /\ action.name = "Post-Salah Tasbih" )
           => current.count + (IF action.count.tag = "Some" THEN action.count.val ELSE 1)
                <= MaxCount
        /\ dhikr_log' = out.log
        /\ call' = [op |-> action.cmd, date |-> today, now |-> 0, days |-> 0,
                    result |-> out.result, computed |-> <<>>]
        /\ UNCHANGED <<config, cache, today, next_prayer_info, prayers, procs, app_meta,
                       wizard, qada_queue, app, quran_log>>

NextDhikr ==
    \/ HandleDhikr
    \/ Midnight

SpecDhikr == Init /\ [][NextDhikr]_vars

\* ---- marking prayers, the qada queue and the dashboard keys ---------------
\* the entries the model lets the qada queue hold
MaxQueue == 2

\* PrayerRepo::mark_status: UPDATE of the non-qada row of the prayer and date
mark_status(p, prayer_type, date, status) ==
    [p EXCEPT ![date][0][prayer_type] = IF @ = "absent" THEN @ ELSE status]

\* QadaRepo::add_entry: a plain INSERT; the id of a row is its position
add_entry(q, prayer_type, original_date) ==
    Append(q, [prayer_type |-> prayer_type, original_date |-> original_date,
               completed |-> FALSE])

\* QadaRepo::count_pending
count_pending(q) == Cardinality({i \in 1..Len(q) : ~q[i].completed})

\* mutant of complete_oldest: the pending entry of smallest id is completed
complete_oldest_by_id(q) ==
    LET pending == {i \in 1..Len(q) : ~q[i].completed} IN
    IF pending = {} THEN [queue |-> q, result |-> Ok([completed |-> FALSE])]
    ELSE LET id == CHOOSE i \in pending : \A j \in pending : i <= j IN
         [queue |-> [q EXCEPT ![id].completed = TRUE],
          result |-> Ok([completed |-> TRUE])]

\* QadaRepo::complete_oldest: the first pending entry in the order
\* (original_date, id), if any, is set to completed
complete_oldest(q) ==
    LET pending == {i \in 1..Len(q) : ~q[i].completed} IN
    IF pending = {} THEN [queue |-> q, result |-> Ok([completed |-> FALSE])]
    ELSE LET id == CHOOSE i \in pending :
                     \A j \in pending :
                        \/ q[i].original_date < q[j].original_date
                        \/ q[i].original_date = q[j].original_date /\ i <= j IN
         [queue |-> [q EXCEPT ![id].completed = TRUE],
          result |-> Ok([completed |-> TRUE])]

\* PrayerType::from_str on the argument of mark and qada add
PrayerType_from_str(str) ==
    IF str \in PrayerTypeSet THEN Ok([prayer_type |-> str]) ELSE Error("Unknown prayer")

\* the prayer names given on the command line
MarkInputs == {"Fajr", "Witr"}
QadaAddInputs == {"Isha", "Witr"}

\* the state a system has once the wizard has been confirmed
InitMark ==
    /\ config \in {c \in Contexts : c.tz = 0}
    /\ cache = run_setup_tui_confirmed(config, [d \in Dates |-> NoRow], 0, {}).cache
    /\ today = 0
    /\ call = Call("init", 0, 0, 0, Outcome(cache, Ok([unit |-> TRUE]), <<>>))
    /\ next_prayer_info = None
    /\ prayers = [d \in PrayerDates |-> NoRecords]
    /\ procs = [p \in Procs |-> Idle]
    /\ app_meta = [setup_done |-> Some("1")]
    /\ wizard = NoWizard
    /\ dhikr_log = [n \in DhikrNames |-> [d \in PrayerDates |-> NoLog]]
    /\ qada_queue = <<>>
    /\ app = NoApp
    /\ quran_log = [d \in PrayerDates |-> 0]

\* handle_mark (after ensure_setup found setup_done = "1")
HandleMark ==
    \E prayer_str \in MarkInputs, missed \in BOOLEAN :
        LET prayer_type == PrayerType_from_str(prayer_str) IN
        /\ app_meta.setup_done = Some("1")
        /\ (missed /\ prayer_type.tag = "Ok") => Len(qada_queue) < MaxQueue
        /\ call' = [op |-> IF missed THEN "mark --missed" ELSE "mark", date |-> today,
                    now |-> 0, days |-> 0, result |-> prayer_type,
                    computed |-> <<>>]
        /\ prayers' = IF prayer_type.tag = "Err" THEN prayers
                      ELSE mark_status(ensure_today_rows(prayers, today),
                                       prayer_type.val.prayer_type, today,
                                       IF missed THEN "missed" ELSE "done")
        /\ qada_queue' = IF missed /\ prayer_type.tag = "Ok"
                         THEN add_entry(qada_queue, prayer_type.val.prayer_type, today)
                         ELSE qada_queue
        /\ UNCHANGED <<config, cache, today, next_prayer_info, procs, app_meta, wizard,
                       dhikr_log, app, quran_log>>

\* handle_qada: complete, or add <prayer>
HandleQada ==
    /\ app_meta.setup_done = Some("1")
    /\ \/ LET out == complete_oldest(qada_queue) IN
          /\ qada_queue' = out.queue
          /\ call' = [op |-> "qada complete", date |-> today, now |-> 0, days |-> 0,
                      result |-> out.result, computed |-> <<>>]
       \/ \E prayer \in QadaAddInputs :
            LET prayer_type == PrayerType_from_str(prayer) IN
            /\ prayer_type.tag = "Ok" => Len(qada_queue) < MaxQueue
            /\ qada_queue' = IF prayer_type.tag = "Err" THEN qada_queue
                             ELSE add_entry(qada_queue, prayer_type.val.prayer_type, today)
            /\ call' = [op |-> "qada add", date |-> today, now |-> 0, days |-> 0,
                        result |-> prayer_type, computed |-> <<>>]
    /\ UNCHANGED <<config, cache, today, next_prayer_info, prayers, procs, app_meta,
                   wizard, dhikr_log, app, quran_log>>

\* main without subcommand when setup_done is "1": the TUI session starts
TuiRun ==
    /\ app_meta.setup_done = Some("1")
    /\ wizard.step = "Closed"
    /\ ~app.running
    /\ Continue("tui", config, Outcome(cache, Ok([unit |-> TRUE]), <<>>), HMS(6, 0, 0), {})
    /\ UNCHANGED <<config, today, procs, app_meta, wizard, dhikr_log, qada_queue, quran_log>>

\* the connection and the App a key handler works on
Session ==
    [app |-> app, prayers |-> prayers, cache |-> cache,
     next_prayer_info |-> next_prayer_info, qada_queue |-> qada_queue,
     dhikr_log |-> dhikr_log, quran_log |-> quran_log]

\* the time of day at which the keys are pressed
KeyTime == HMS(6, 0, 0)

\* QuranRepo::get_today: the pages of the date, 0 without a row
get_today(q, date) == q[date]

\* App::load as the key handlers call it, its error dropped: the rows of
\* today_str are ensured, then, if the calculator can be made, the times of
\* the current date are resolved, App.prayers, the dhikr definitions and
\* logs and the pages are read again for today_str and the next prayer is
\* looked up
load(s, now, now_time, fails) ==
    LET p1 == ensure_today_rows(s.prayers, s.app.today_str)
        made == PrayerCalculator_new(s.app.config) IN
    IF made.tag = "Err"
    THEN [s EXCEPT !.prayers = p1]
    ELSE LET first == get_cached_or_compute(made.val, s.cache, now, now \notin fails)
             nxt == get_next_prayer(made.val, first.cache, now, now_time, fails) IN
         [s EXCEPT
            !.app = [@ EXCEPT
                       !.prayers = prayer_types(get_by_date(p1, s.app.today_str)),
                       !.dhikr_defs = get_active_definitions,
                       !.dhikr_logs = get_log_for_date(s.dhikr_log, s.app.today_str),
                       !.quran_today = get_today(s.quran_log, s.app.today_str)],
            !.prayers = p1,
            !.cache = nxt.cache,
            !.next_prayer_info = IF nxt.result.tag = "Ok" THEN nxt.result.val ELSE None]

\* App::mark_focused_done
mark_focused_done(s, now) ==
    IF s.app.focus_section = "Prayers" /\ s.app.focus_idx + 1 <= Len(s.app.prayers)
    THEN load([s EXCEPT !.prayers = mark_status(@, s.app.prayers[s.app.focus_idx + 1],
                                                 s.app.today_str, "done")],
              now, KeyTime, {})
    ELSE s

\* App::mark_focused_missed
mark_focused_missed(s, now) ==
    IF s.app.focus_section = "Prayers" /\ s.app.focus_idx + 1 <= Len(s.app.prayers)
    THEN load([s EXCEPT !.prayers = mark_status(@, s.app.prayers[s.app.focus_idx + 1],
                                                 s.app.today_str, "missed"),
                        !.qada_queue = add_entry(@, s.app.prayers[s.app.focus_idx + 1],
                                                 s.app.today_str)],
              now, KeyTime, {})
    ELSE s

\* App::toggle_focused_dhikr: the log it reads is App.dhikr_logs
toggle_focused_dhikr(s, now) ==
    IF s.app.focus_idx + 1 <= Len(s.app.dhikr_defs)
    THEN LET def == s.app.dhikr_defs[s.app.focus_idx + 1]
             log == s.app.dhikr_logs[def] IN
         IF DhikrDefs[def].dhikr_type = "Checkbox"
         THEN LET was_done == IF log = NoLog THEN FALSE ELSE log.completed IN
              load([s EXCEPT !.dhikr_log = upsert_log(@, def, s.app.today_str, 1,
                                                      ~was_done)],
                   now, KeyTime, {})
         ELSE LET count == (IF log = NoLog THEN 0 ELSE log.count) + 1
                  completed == count >= DhikrDefs[def].target_count IN
              load([s EXCEPT !.dhikr_log = upsert_log(@, def, s.app.today_str, count,
                                                      completed)],
                   now, KeyTime, {})
    ELSE s

\* mutant of focus_max: the length of the list itself
focus_max_len(a) ==
    CASE a.focus_section = "Prayers" -> Len(a.prayers)
      [] a.focus_section = "Dhikr" -> Len(a.dhikr_defs)
      [] OTHER -> 0

\* the length of the list of the focused section, less one (saturating)
focus_max(a) ==
    CASE a.focus_section = "Prayers" -> IF Len(a.prayers) = 0 THEN 0
                                        ELSE Len(a.prayers) - 1
      [] a.focus_section = "Dhikr" -> IF Len(a.dhikr_defs) = 0 THEN 0
                                      ELSE Len(a.dhikr_defs) - 1
      [] OTHER -> 0

\* App::handle_dashboard_key
handle_dashboard_key(s, key, now) ==
    IF s.app.show_qada_overlay
    THEN [s EXCEPT !.app.show_qada_overlay = FALSE]
    ELSE CASE key = "Esc" -> [s EXCEPT !.app.should_quit = TRUE]
           [] key = "q" -> [s EXCEPT !.app.show_qada_overlay = TRUE]
           [] key = "?" -> [s EXCEPT !.app.view = "Help"]
           [] key = "s" -> [s EXCEPT !.app.view = "Stats"]
           [] key = "r" -> [s EXCEPT !.app.input_mode = "QuranInput",
                                     !.app.input_buffer = <<>>,
                                     !.app.input_error = None]
           [] key = "Up" -> IF s.app.focus_idx > 0
                            THEN [s EXCEPT !.app.focus_idx = @ - 1]
                            ELSE s
           [] key = "Down" -> IF s.app.focus_idx < focus_max(s.app)
                              THEN [s EXCEPT !.app.focus_idx = @ + 1]
                              ELSE s
           [] key = "Tab" ->
                [s EXCEPT !.app.focus_section = IF @ = "Prayers" THEN "Dhikr"
                                                ELSE "Prayers",
                          !.app.focus_idx = 0]
           [] key \in {"m", "Enter"} ->
                IF s.app.focus_section = "Prayers" THEN mark_focused_done(s, now)
                ELSE s
           [] key = "M" ->
                IF s.app.focus_section = "Prayers" THEN mark_focused_missed(s, now)
                ELSE s
           [] key = "d" ->
                IF s.app.focus_section # "Dhikr"
                THEN toggle_focused_dhikr([s EXCEPT !.app.focus_section = "Dhikr",
                                                    !.app.focus_idx = 0], now)
                ELSE toggle_focused_dhikr(s, now)
           [] OTHER -> s

\* App::handle_stats_key
handle_stats_key(a, key) ==
    IF key \in {"Esc", "s"} THEN [a EXCEPT !.view = "Dashboard"] ELSE a

\* App::handle_help_key
handle_help_key(a, key) ==
    IF key \in {"Esc", "?"} THEN [a EXCEPT !.view = "Dashboard"] ELSE a

\* the characters char::is_ascii_digit accepts, in the order of their values
DigitChars == <<"0", "1", "2", "3", "4", "5", "6", "7", "8", "9">>
Digits == {DigitChars[i] : i \in 1..10}

\* the value of a run of decimal digits
RECURSIVE digits_value(_)
digits_value(ds) ==
    IF ds = <<>> THEN 0
    ELSE 10 * digits_value(SubSeq(ds, 1, Len(ds) - 1))
         + (CHOOSE i \in 0..9 : DigitChars[i + 1] = ds[Len(ds)])

\* the longest entry the model types, and the unit the pages are counted in:
\* every entry of that length is a whole number of 1/PageScale of a page
MaxBuffer == 2
PageScale == 10 ^ MaxBuffer

\* str::parse::<f64> of an entry made of digits and dots: digits, digits
\* with one dot before, inside or after them; anything else is an error.
\* The value is in 1/PageScale of a page (the rounding of f64 is left out).
parse_f64(buf) ==
    LET dots == {i \in 1..Len(buf) : buf[i] = "."} IN
    IF Cardinality(dots) > 1 \/ Len(buf) = Cardinality(dots)
    THEN Error("invalid float literal")
    ELSE LET dot == IF dots = {} THEN Len(buf) + 1 ELSE CHOOSE i \in dots : TRUE
             whole == SubSeq(buf, 1, dot - 1)
             frac == SubSeq(buf, dot + 1, Len(buf)) IN
         Ok([pages |-> digits_value(whole) * PageScale
                       + (digits_value(frac) * PageScale) \div (10 ^ Len(frac))])

\* QuranRepo::log_pages: INSERT ... ON CONFLICT(date) DO UPDATE SET pages =
\* pages + ?2
log_pages(q, date, pages) == [q EXCEPT ![date] = @ + pages]

\* App::handle_quran_input; the entry holds digits and dots only, so that
\* trim leaves it as it is
handle_quran_input(s, key, now) ==
    CASE key = "Esc" -> [s EXCEPT !.app.input_mode = "Normal",
                                  !.app.input_buffer = <<>>,
                                  !.app.input_error = None]
      [] key = "Enter" ->
           IF s.app.input_buffer = <<>>
           THEN [s EXCEPT !.app.input_error = Some("Enter a number first")]
           ELSE LET parsed == parse_f64(s.app.input_buffer) IN
                IF parsed.tag = "Err"
                THEN [s EXCEPT !.app.input_error = Some("is not a valid number")]
                ELSE IF parsed.val.pages > 0
                THEN LET loaded == load([s EXCEPT !.quran_log =
                                             log_pages(@, s.app.today_str,
                                                       parsed.val.pages)],
                                        now, KeyTime, {}) IN
                     [loaded EXCEPT !.app.input_mode = "Normal",
                                    !.app.input_buffer = <<>>,
                                    !.app.input_error = None]
                ELSE [s EXCEPT !.app.input_error = Some("Pages must be greater than 0")]
      [] key = "Backspace" ->
           [s EXCEPT !.app.input_buffer = IF @ = <<>> THEN @
                                          ELSE SubSeq(@, 1, Len(@) - 1),
                     !.app.input_error = None]
      [] key \in Digits \cup {"."} ->
           [s EXCEPT !.app.input_buffer = Append(@, key),
                     !.app.input_error = None]
      [] OTHER -> s

\* App::handle_normal_key
handle_normal_key(s, key, now) ==
    CASE s.app.view = "Dashboard" -> handle_dashboard_key(s, key, now)
      [] s.app.view = "Stats" -> [s EXCEPT !.app = handle_stats_key(@, key)]
      [] s.app.view = "Help" -> [s EXCEPT !.app = handle_help_key(@, key)]

\* mutant of handle_key: the kind of the event is not looked at
handle_key_any_kind(s, kind, key, now) ==
    IF s.app.input_mode = "QuranInput" THEN handle_quran_input(s, key, now)
    ELSE handle_normal_key(s, key, now)

\* App::handle_key: only presses are handled
handle_key(s, kind, key, now) ==
    IF kind # "Press" THEN s
    ELSE IF s.app.input_mode = "QuranInput" THEN handle_quran_input(s, key, now)
    ELSE handle_normal_key(s, key, now)

\* what the model lets the tables grow to under the key: a counter up to
\* MaxCount, the queue up to MaxQueue, the pages of a date up to MaxPages,
\* the entry up to MaxBuffer characters
MaxPages == 2
KeyWithinBounds(kind, key) ==
    ( kind = "Press" /\ ~app.show_qada_overlay ) =>
      /\ ( key = "M" /\ app.input_mode = "Normal" /\ app.view = "Dashboard" )
            => Len(qada_queue) < MaxQueue
      /\ ( key = "d" /\ app.input_mode = "Normal" /\ app.view = "Dashboard" )
            => LET idx == IF app.focus_section = "Dhikr" THEN app.focus_idx ELSE 0
                   log == app.dhikr_logs[app.dhikr_defs[idx + 1]] IN
               ( idx + 1 <= Len(app.dhikr_defs) /\ log # NoLog ) => log.count < MaxCount
      /\ ( key \in Digits \cup {"."} /\ app.input_mode = "QuranInput" )
            => Len(app.input_buffer) < MaxBuffer
      /\ ( key = "Enter" /\ app.input_mode = "QuranInput" )
            => LET parsed == parse_f64(app.input_buffer) IN
               parsed.tag = "Ok"
                 => quran_log[app.today_str] + parsed.val.pages <= MaxPages * PageScale

\* run: one Key event of the loop; handle_key, and once should_quit is set
\* the loop ends, run returns and its App is gone
KeyEvent(kind, key) ==
    \E out \in {handle_key(Session, kind, key, today)} :
        /\ app.running
        /\ KeyWithinBounds(kind, key)
        /\ call' = [op |-> (IF kind = "Press" THEN "key " ELSE "release ") \o key,
                    date |-> today, now |-> 0, days |-> 0,
                    result |-> Ok([prayer_type |->
                                     IF /\ kind = "Press"
                                        /\ key \in {"m", "M", "Enter"}
                                        /\ app.input_mode = "Normal"
                                        /\ app.view = "Dashboard"
                                        /\ ~app.show_qada_overlay
                                        /\ app.focus_section = "Prayers"
                                        /\ app.focus_idx + 1 <= Len(app.prayers)
                                     THEN app.prayers[app.focus_idx + 1]
                                     ELSE "none"]),
                    computed |-> <<>>]
        /\ app' = IF out.app.should_quit THEN [NoApp EXCEPT !.should_quit = TRUE]
                  ELSE out.app
        /\ prayers' = out.prayers
        /\ cache' = out.cache
        /\ next_prayer_info' = out.next_prayer_info
        /\ qada_queue' = out.qada_queue
        /\ dhikr_log' = out.dhikr_log
        /\ quran_log' = out.quran_log
        /\ UNCHANGED <<config, today, procs, app_meta, wizard>>

\* the keys pressed on the dashboard
DashboardKeys == {"Esc", "Tab", "m", "M"}

\* the dashboard keys that quit, change the section and mark a prayer
TuiKey ==
    \E key \in DashboardKeys : KeyEvent("Press", key)

NextMark ==
    \/ HandleMark
    \/ HandleQada
    \/ TuiRun
    \/ TuiKey
    \/ Midnight

SpecMark == InitMark /\ [][NextMark]_vars

\* ---- the views, the overlay and quitting ---------------------------------
\* the Key events of a session that changes views: the keys that open and
\* close a view, the overlay and the Quran input, Tab, Enter, a dot as an entry
\* and x as any other key, pressed; and two events that are not presses
TuiEvents ==
    [kind : {"Press"}, key : {"Esc", "q", "?", "s", "r", "Tab", "Enter", ".", "x"}]
    \cup [kind : {"Release"}, key : {"Esc", "x"}]

\* run: one of these Key events
TuiEvent ==
    \E ev \in TuiEvents : KeyEvent(ev.kind, ev.key)

NextTui ==
    \/ TuiRun
    \/ TuiEvent

SpecTui == InitMark /\ [][NextTui]_vars

\* ---- the focus of the dashboard ------------------------------------------
\* the keys of a session that moves the focus and acts on the focused row
FocusKeys == {"Up", "Down", "Tab", "m", "d"}

\* run: a Key press with one of these keys
FocusKey ==
    \E key \in FocusKeys : KeyEvent("Press", key)

NextFocus ==
    \/ TuiRun
    \/ FocusKey

SpecFocus == InitMark /\ [][NextFocus]_vars

\* ---- the Quran page input ------------------------------------------------
\* the keys of a session that enters pages
QuranKeys == {"r", "0", "2", ".", "Backspace", "Enter", "Esc", "x"}

\* run: a Key press with one of these keys
QuranKey ==
    \E key \in QuranKeys : KeyEvent("Press", key)

NextQuran ==
    \/ TuiRun
    \/ QuranKey
    \/ Midnight

SpecQuran == InitMark /\ [][NextQuran]_vars

\* ---- properties -----------------------------------------------------------

\* C1: a get_cached_or_compute call for a date that is present in the Day
\* Cache returns exactly the six stored times, invokes the Provider zero
\* times and leaves the cache unchanged, whatever the current Context is.
C1_CacheHitFrame ==
    [][ \A d \in Dates :
          ( /\ call'.op = "get_cached_or_compute"
            /\ call'.date = d
            /\ cache[d] # NoRow
            /\ \A f \in FieldSet : parses(cache[d].row[f]) )
          => /\ cache' = cache
             /\ call'.computed = <<>>
             /\ call'.result.tag = "Ok"
             /\ \A f \in FieldSet :
                  call'.result.val[f] = HMS(cache[d].row[f][1], cache[d].row[f][2], 0)
      ]_vars

\* C1 witness: a hit answered from the cache under a Context that would
\* compute something else for that date (or nothing at all).
C1_Witness ==
    /\ call.op = "get_cached_or_compute"
    /\ call.computed = <<>>
    /\ call.result.tag = "Ok"
    /\ PrayerCalculator_new(config).tag = "Ok"
    /\ compute_times(PrayerCalculator_new(config).val, call.date, TRUE) # call.result

\* C2: a successful get_cached_or_compute call for a date absent from the
\* Day Cache invokes the Provider exactly once, for that date, stores the
\* computed times under that date only, and returns them.
C2_CacheMiss ==
    [][ \A d \in Dates :
          ( /\ call'.op = "get_cached_or_compute"
            /\ call'.date = d
            /\ cache[d] = NoRow
            /\ call'.result.tag = "Ok" )
          => /\ call'.computed = <<d>>
             /\ call'.result.val =
                  [f \in FieldSet |->
                     ((Provider(config.loc, d)[f] * 60 + config.tz * 60 + SecsPerDay)
                        % SecsPerDay) * SubsecPerSec]
             /\ cache'[d] # NoRow
             /\ \A f \in FieldSet :
                  /\ cache'[d].row[f][1] = call'.result.val[f] \div (3600 * SubsecPerSec)
                  /\ cache'[d].row[f][2] = (call'.result.val[f] \div (60 * SubsecPerSec)) % 60
             /\ \A e \in Dates \ {d} : cache'[e] = cache[e]
      ]_vars

\* C2 witness: a miss that was computed, stored and returned.
C2_Witness ==
    /\ call.op = "get_cached_or_compute"
    /\ call.computed = <<call.date>>
    /\ call.result.tag = "Ok"
    /\ cache[call.date] # NoRow

\* C3: the stored "HH:MM" strings read back as the very times that were
\* computed: after a successful get_cached_or_compute the row of the date
\* parses to the returned value, every date ensure_cached stored parses to
\* the computed value, and two consecutive get_cached_or_compute calls for
\* the same date (the miss, then the hit) return the same value.
C3_RoundTrip ==
    /\ [] ( /\ ( call.op = "get_cached_or_compute" /\ call.result.tag = "Ok" )
              => /\ cache[call.date] # NoRow
                 /\ \A f \in FieldSet :
                      HMS(cache[call.date].row[f][1], cache[call.date].row[f][2], 0)
                        = call.result.val[f]
            /\ call.op = "ensure_cached"
              => \A i \in 1..Len(call.computed) :
                   LET d == call.computed[i] IN
                   cache[d] # NoRow
                   => \A f \in FieldSet :
                        HMS(cache[d].row[f][1], cache[d].row[f][2], 0)
                          = ((Provider(config.loc, d)[f] * 60 + config.tz * 60 + SecsPerDay)
                               % SecsPerDay) * SubsecPerSec )
    /\ [][ ( /\ call.op = "get_cached_or_compute"
             /\ call.result.tag = "Ok"
             /\ call'.op = "get_cached_or_compute"
             /\ call'.date = call.date )
           => call'.result = call.result ]_vars

\* C3 witness: a computed value with a non-zero hour and minute was stored
\* and is present in the cache.
C3_Witness ==
    /\ call.op = "get_cached_or_compute"
    /\ call.computed = <<call.date>>
    /\ call.result.tag = "Ok"
    /\ cache[call.date] # NoRow
    /\ call.result.val.zuhr = HMS(12, 30, 0)


\* C4: a successful ensure_cached(N) call leaves every date of
\* today..today+N present, invokes the Provider for exactly the dates of the
\* range that were absent (each once, in date order), stores for each of
\* them the times computed under the current Context, and leaves every row
\* that was present before the call unchanged.
C4_EnsureCachedFillsGaps ==
    [][ ( call'.op = "ensure_cached" /\ call'.result.tag = "Ok" )
        => LET N == call'.days
               range == today..(today + N)
               comp == call'.computed
           IN
           /\ Cardinality(range) = N + 1
           /\ \A d \in range : cache'[d] # NoRow
           /\ \A i \in 1..Len(comp) : comp[i] \in range /\ cache[comp[i]] = NoRow
           /\ \A i, j \in 1..Len(comp) : i < j => comp[i] < comp[j]
           /\ \A d \in range : cache[d] = NoRow => \E i \in 1..Len(comp) : comp[i] = d
           /\ \A d \in Dates : cache[d] # NoRow => cache'[d] = cache[d]
           /\ \A d \in Dates \ range : cache'[d] = cache[d]
      ]_vars

\* C4 witness: a successful call over two dates of which one was already
\* present and the other was computed.
C4_Witness ==
    /\ call.op = "ensure_cached"
    /\ call.result.tag = "Ok"
    /\ call.days >= 1
    /\ Len(call.computed) >= 1
    /\ Len(call.computed) < call.days + 1
    /\ \A d \in call.date..(call.date + call.days) : cache[d] # NoRow

C6_PartialFailure ==
    [][ call'.op = "ensure_cached"
        => LET comp == call'.computed IN
           /\ \A i \in 1..Len(comp) : cache[comp[i]] = NoRow
           /\ \A d \in Dates : cache[d] # NoRow => cache'[d] = cache[d]
           /\ call'.result.tag = "Err"
              => /\ Len(comp) >= 1
                 /\ cache'[comp[Len(comp)]] = NoRow
                 /\ \A i \in 1..(Len(comp) - 1) :
                      /\ cache'[comp[i]] # NoRow
                      /\ \A f \in FieldSet :
                           HMS(cache'[comp[i]].row[f][1], cache'[comp[i]].row[f][2], 0)
                             = ((Provider(config.loc, comp[i])[f] * 60 + config.tz * 60
                                   + SecsPerDay) % SecsPerDay) * SubsecPerSec
                 /\ \A d \in today..(comp[Len(comp)] - 1) : cache'[d] # NoRow
      ]_vars

\* C6 witness: a failed call that stored a date before the date it failed on.
C6_Witness ==
    /\ call.op = "ensure_cached"
    /\ call.result.tag = "Err"
    /\ Len(call.computed) >= 2
    /\ cache[call.computed[1]] # NoRow
    /\ cache[call.computed[Len(call.computed)]] = NoRow


\* C7: when one of the five prayers of now_date is later than now_time, a
\* successful get_next_prayer call returns the first prayer, in the order
\* Fajr, Zuhr, Asr, Maghrib, Isha, whose cached time is strictly greater
\* than now_time (every earlier one is at or before now_time, Sunrise is not
\* a candidate) and the whole seconds of (that time - now_time).
C7_NextPrayerToday ==
    ( call.op = "get_next_prayer" /\ call.result.tag = "Ok" )
    => /\ cache[call.date] # NoRow
       /\ LET row == cache[call.date].row
              t == [p \in {"Fajr", "Zuhr", "Asr", "Maghrib", "Isha"} |->
                      LET s == CASE p = "Fajr" -> row.fajr
                                 [] p = "Zuhr" -> row.zuhr
                                 [] p = "Asr" -> row.asr
                                 [] p = "Maghrib" -> row.maghrib
                                 [] p = "Isha" -> row.isha
                      IN ((s[1] * 60 + s[2]) * 60) * SubsecPerSec]
              order == <<"Fajr", "Zuhr", "Asr", "Maghrib", "Isha">>
              res == call.result.val
          IN
          (\E i \in 1..5 : t[order[i]] > call.now)
          => /\ res.tag = "Some"
             /\ \E i \in 1..5 :
                  /\ res.val.prayer = order[i]
                  /\ t[order[i]] > call.now
                  /\ \A j \in 1..(i - 1) : t[order[j]] <= call.now
                  /\ res.val.secs >= 0
                  /\ res.val.secs * SubsecPerSec <= t[order[i]] - call.now
                  /\ t[order[i]] - call.now < (res.val.secs + 1) * SubsecPerSec

\* C7 witness: Fajr 05:00, Zuhr 12:30, now 06:00 gives (Zuhr, 23400).
C7_Witness ==
    /\ call.op = "get_next_prayer"
    /\ call.now = HMS(6, 0, 0)
    /\ cache[call.date] # NoRow
    /\ cache[call.date].row.fajr = <<5, 0>>
    /\ cache[call.date].row.zuhr = <<12, 30>>
    /\ call.result = Ok(Some([prayer |-> "Zuhr", secs |-> 23400]))


\* C8: when all five cached prayer times of now_date are at or before
\* now_time, a successful get_next_prayer call returns Fajr with tomorrow's
\* row present in the cache (computed by this call if it was absent, left
\* as it was otherwise) and the countdown
\*   (whole seconds from now_time to 23:59:59) + (seconds from 00:00:00 to
\*   tomorrow's cached Fajr) + 1,
\* which for a now_time in whole seconds is exactly the time from now to
\* tomorrow's Fajr and otherwise differs from it by less than one second.
C8_NextPrayerTomorrow ==
    /\ [] ( ( /\ call.op = "get_next_prayer"
              /\ call.result.tag = "Ok"
              /\ cache[call.date] # NoRow
              /\ \A f \in {"fajr", "zuhr", "asr", "maghrib", "isha"} :
                   ((cache[call.date].row[f][1] * 60 + cache[call.date].row[f][2]) * 60)
                      * SubsecPerSec <= call.now )
            => /\ call.result.val.tag = "Some"
               /\ call.result.val.val.prayer = "Fajr"
               /\ cache[call.date + 1] # NoRow
               /\ LET fajr == cache[call.date + 1].row.fajr
                      fromMidnight == (fajr[1] * 60 + fajr[2]) * 60
                      lastSecond == (23 * 3600 + 59 * 60 + 59) * SubsecPerSec
                      toEnd == IF call.now <= lastSecond
                               THEN (lastSecond - call.now) \div SubsecPerSec
                               ELSE 0
                      secs == call.result.val.val.secs
                      exact == (SecsPerDay * SubsecPerSec - call.now)
                                 + fromMidnight * SubsecPerSec
                  IN
                  /\ secs = toEnd + fromMidnight + 1
                  /\ call.now % SubsecPerSec = 0 => secs * SubsecPerSec = exact
                  /\ exact - SubsecPerSec < secs * SubsecPerSec
                  /\ secs * SubsecPerSec < exact + SubsecPerSec )
    /\ [][ ( /\ call'.op = "get_next_prayer"
             /\ call'.result.tag = "Ok"
             /\ call'.result.val.tag = "Some"
             /\ cache'[call'.date] # NoRow
             /\ \A f \in {"fajr", "zuhr", "asr", "maghrib", "isha"} :
                  ((cache'[call'.date].row[f][1] * 60 + cache'[call'.date].row[f][2]) * 60)
                     * SubsecPerSec <= call'.now )
           => LET tomorrow == call'.date + 1
                  computedTomorrow == \E i \in 1..Len(call'.computed) :
                                         call'.computed[i] = tomorrow
              IN
              /\ cache[tomorrow] = NoRow => computedTomorrow
              /\ cache[tomorrow] # NoRow
                 => ~computedTomorrow /\ cache'[tomorrow] = cache[tomorrow]
         ]_vars

\* C8 witness: today's Isha is 19:45 and now is 19:45:01; the answer is
\* tomorrow's Fajr (04:59) in 15299 + 17940 seconds.
C8_Witness ==
    /\ call.op = "get_next_prayer"
    /\ call.now = HMS(19, 45, 1)
    /\ cache[call.date] # NoRow
    /\ cache[call.date].row.isha = <<19, 45>>
    /\ cache[call.date + 1] # NoRow
    /\ cache[call.date + 1].row.fajr = <<4, 59>>
    /\ call.result = Ok(Some([prayer |-> "Fajr", secs |-> 15299 + 17940]))

C10_Ordering ==
    \A d \in Dates :
        cache[d] # NoRow
        => LET t == [f \in FieldSet |->
                       (cache[d].row[f][1] * 60 + cache[d].row[f][2]) * 60]
           IN /\ t.fajr < t.sunrise
              /\ t.sunrise < t.zuhr
              /\ t.zuhr < t.asr
              /\ t.asr < t.maghrib
              /\ t.maghrib < t.isha


\* C11: after clear_all the Day Cache holds no row for any date, and a
\* get_cached_or_compute call that follows it invokes the Provider exactly
\* once, for the date asked.
C11_ClearForcesRecompute ==
    /\ [] ( call.op = "clear_all" => \A d \in Dates : cache[d] = NoRow )
    /\ [][ ( call.op = "clear_all" /\ call'.op = "get_cached_or_compute" )
           => call'.computed = <<call'.date>> ]_vars

\* C11 witness: a clear_all that removed the rows of at least two dates.
C11_Witness ==
    /\ call.op = "clear_all"
    /\ call.result.val.deleted >= 2
    /\ \A d \in Dates : cache[d] = NoRow

\* C12: a step that is not clear_all leaves every row that is present in the
\* Day Cache present and with the same six strings.
C12_WriteOnce ==
    [][ call'.op # "clear_all"
        => \A d \in Dates : cache[d] # NoRow => cache'[d] = cache[d] ]_vars

\* C12 witness: a call stored a new date while the row of another date,
\* written under another Context, is still what it was (it is not what the
\* current Context computes for that date).
C12_Witness ==
    /\ call.op \in {"get_cached_or_compute", "ensure_cached", "get_next_prayer"}
    /\ call.result.tag = "Ok"
    /\ call.computed # <<>>
    /\ \E d \in Dates :
         /\ cache[d] # NoRow
         /\ \A i \in 1..Len(call.computed) : call.computed[i] # d
         /\ cache[d].row.fajr[1] # ((Provider(config.loc, d).fajr + config.tz) % 1440) \div 60


\* C13 as stated: when the row of a date holds a string that does not parse,
\* get_cached_or_compute treats the date as absent (it invokes the Provider
\* for it and, if that succeeds, overwrites the row with well-formed times),
\* and neither it nor ensure_cached fails with the parse error.
C13_SelfHealing ==
    [][ /\ \A d \in Dates :
             ( /\ call'.op = "get_cached_or_compute"
               /\ call'.date = d
               /\ cache[d] # NoRow
               /\ \E f \in FieldSet : ~parses(cache[d].row[f]) )
             => /\ call'.computed = <<d>>
                /\ call'.result.tag = "Ok"
                   => \A f \in FieldSet : parses(cache'[d].row[f])
        /\ ( call'.op \in {"get_cached_or_compute", "ensure_cached"}
             /\ call'.result.tag = "Err" )
           => call'.result.kind # "Bad time"
      ]_vars


\* C14: when the Provider fails for a date that is not cached,
\* get_cached_or_compute returns that failure, has asked the Provider once
\* (no retry), stores nothing and leaves the whole cache as it was; and
\* get_next_prayer returns the failure of the lookup that failed, with no row
\* stored for the failing date and no row changed other than the row of a
\* date it resolved successfully before. No times are substituted.
C14_ProviderFailure ==
    PrayerCalculator_new(config).tag = "Ok" =>
        LET calc == PrayerCalculator_new(config).val IN
        /\ \A d \in Dates :
             cache[d] = NoRow =>
                LET out == get_cached_or_compute(calc, cache, d, FALSE) IN
                /\ out.result = Error("Prayer calculation failed")
                /\ out.cache = cache
                /\ out.computed = <<d>>
        /\ \A t \in NowTimes, fails \in SUBSET {today, today + 1} :
             LET out == get_next_prayer(calc, cache, today, t, fails) IN
             /\ ( cache[today] = NoRow /\ today \in fails )
                => /\ out.result = Error("Prayer calculation failed")
                   /\ out.cache = cache
                   /\ out.computed = <<today>>
             /\ ( \E i \in 1..Len(out.computed) :
                     out.computed[i] \in fails /\ cache[out.computed[i]] = NoRow )
                => /\ out.result = Error("Prayer calculation failed")
                   /\ LET d == out.computed[Len(out.computed)] IN
                      /\ d \in fails
                      /\ out.cache[d] = NoRow
                      /\ \A i \in 1..(Len(out.computed) - 1) : out.computed[i] # d
                      /\ \A e \in Dates :
                           (\A i \in 1..Len(out.computed) : out.computed[i] # e)
                           => out.cache[e] = cache[e]

\* C14 witness: a failed lookup of an absent date, made while another date
\* is cached; the failing date is still absent and was tried once.
C14_Witness ==
    /\ call.op = "get_cached_or_compute"
    /\ call.result = Error("Prayer calculation failed")
    /\ call.computed = <<call.date>>
    /\ cache[call.date] = NoRow
    /\ \E e \in Dates : cache[e] # NoRow

\* C15: times_for_date always computes the date through the Provider and the
\* projection under the current Context, and neither reads nor writes the Day
\* Cache: the cache is unchanged and the answer is the projection of the
\* Provider's times (or the failure of the computation), cached or not.
C15_TimesForDateBypassesCache ==
    [][ call'.op = "times_for_date" /\ PrayerCalculator_new(config).tag = "Ok"
        => /\ cache' = cache
           /\ call'.computed = <<call'.date>>
           /\ call'.result.tag = "Ok"
              => \A f \in FieldSet :
                   call'.result.val[f] =
                     to_local(Provider(config.loc, call'.date)[f], config.tz * 60)
           /\ call'.result.tag = "Err"
              => call'.result.kind \in {"Prayer calculation failed",
                                        "Invalid timezone offset"}
      ]_vars

\* C15 witness: times_for_date answered for a cached date whose stored row
\* differs from the answer, and the row is still there.
C15_Witness ==
    /\ call.op = "times_for_date"
    /\ call.result.tag = "Ok"
    /\ cache[call.date] # NoRow
    /\ cache[call.date].row.fajr # format_hm(call.result.val.fajr)


\* C16: PrayerCalculator::new fails for every method outside the enumerated
\* set and every madhab outside the accepted values, so every operation
\* attempted under such a configuration stops at construction (nothing is
\* computed or stored), and no operation on a constructed calculator fails
\* with an unknown-method or unknown-madhab error.
C16_ValidatedAtConstruction ==
    LET known == /\ config.method \in CALC_METHODS
                 /\ config.madhab \in {"Hanafi", "Shafi", "Shafi'i"}
        ops == {"times_for_date", "get_cached_or_compute", "ensure_cached",
                "get_next_prayer"} IN
    /\ known <=> PrayerCalculator_new(config).tag = "Ok"
    /\ call.op \in ops =>
         /\ ~known => /\ call.result.tag = "Err"
                      /\ call.result.kind \in {"Unknown calculation method",
                                               "Unknown madhab"}
                      /\ call.computed = <<>>
                      /\ \A d \in Dates : cache[d] = NoRow
         /\ known => ( call.result.tag = "Err" =>
                         call.result.kind \notin {"Unknown calculation method",
                                                  "Unknown madhab"} )

\* C16 witness: an operation refused at construction for its madhab alone,
\* the method being a known one.
C16_Witness ==
    /\ call.op = "get_cached_or_compute"
    /\ call.result = Error("Unknown madhab")
    /\ config.method \in CALC_METHODS

\* C17 as stated: an offset that FixedOffset cannot represent makes
\* PrayerCalculator::new fail, and no operation fails because of the offset.
C17_OffsetRejectedAtConstruction ==
    /\ ~FixedOffset_east_opt(config.tz * 60) => PrayerCalculator_new(config).tag = "Err"
    /\ ( call.op \in {"times_for_date", "get_cached_or_compute", "ensure_cached",
                      "get_next_prayer"}
         /\ call.result.tag = "Err" )
       => call.result.kind # "Invalid timezone offset"

C19_CurrentStreakTodayFull ==
    LET Full(d) == d \in DOMAIN prayers
                   /\ \A pt \in PrayerTypeSet : prayers[d][0][pt] = "done" IN
    ( call.op = "calculate_streak" /\ Full(today) )
    => \E n \in 1..(HistoryDays + MaxToday + 1) :
         /\ call.result.val.current = n
         /\ \A k \in 0..(n - 1) : Full(today - k)
         /\ ~Full(today - n)

\* C19 witness: the scenario of the four full days -4, -3, -2 and 0 with a
\* day -1 that is not full: current is 1 and best is 3.
C19_Witness ==
    /\ call.op = "calculate_streak"
    /\ full_dates(prayers) = {today - 4, today - 3, today - 2, today}
    /\ prayers[today - 1] # NoRecords
    /\ call.result.val = [current |-> 1, best |-> 3]

\* C20 as stated: when today is not (yet) a full day, the current streak is
\* the number of consecutive full days ending yesterday.
C20_TodayNotFull ==
    LET Full(d) == d \in DOMAIN prayers
                   /\ \A pt \in PrayerTypeSet : prayers[d][0][pt] = "done" IN
    ( call.op = "calculate_streak" /\ ~Full(today) )
    => \E n \in 0..(HistoryDays + MaxToday) :
         /\ call.result.val.current = n
         /\ \A k \in 1..n : Full(today - k)
         /\ ~Full(today - n - 1)


\* C21: the best streak returned by calculate_streak is the length of the
\* longest run of full days on consecutive calendar dates, wherever the run
\* lies (a run that ends at the latest full day included); a date that is
\* not full ends a run.
C21_BestStreak ==
    LET Full(d) == d \in DOMAIN prayers
                   /\ \A pt \in PrayerTypeSet : prayers[d][0][pt] = "done"
        Run(d, n) == \A k \in 0..(n - 1) : Full(d + k) IN
    call.op = "calculate_streak"
    => \E n \in 0..Cardinality(PrayerDates) :
         /\ call.result.val.best = n
         /\ n > 0 => \E d \in PrayerDates : Run(d, n)
         /\ ~ \E d \in PrayerDates : Run(d, n + 1)

\* C21 witness: a single full day, a gap, then two full days that are the
\* latest ones: best is 2.
C21_Witness ==
    /\ call.op = "calculate_streak"
    /\ full_dates(prayers) = {today - 4, today - 2, today - 1}
    /\ call.result.val.best = 2

\* C22: a date is a full day for the streak exactly when each of the five
\* prayers has a row with is_qada = 0 and status done; so the current streak
\* is positive only if today is such a day and the best streak only if some
\* date is.
C22_FullDay ==
    LET Full(d) == \A pt \in PrayerTypeSet : prayers[d][0][pt] = "done" IN
    call.op = "calculate_streak"
    => /\ \A d \in PrayerDates : d \in full_dates(prayers) <=> Full(d)
       /\ call.result.val.current >= 1 <=> Full(today)
       /\ call.result.val.best >= 1 <=> \E d \in PrayerDates : Full(d)

\* C22 witness: today has four prayers done and the fifth done only as a
\* qada row (five done rows in all) and is not counted, while an earlier full
\* day is.
C22_Witness ==
    /\ call.op = "calculate_streak"
    /\ prayers[today][0]["Isha"] = "pending"
    /\ prayers[today][1]["Isha"] = "done"
    /\ Cardinality({r \in {0, 1} \X PrayerTypeSet :
                      prayers[today][r[1]][r[2]] = "done"}) >= 5
    /\ call.result.val.current = 0
    /\ call.result.val.best >= 1

\* C23: when no date is a full day (no rows at all, or only days that are
\* not full), calculate_streak returns current = 0 and best = 0.
C23_DegenerateStreak ==
    ( /\ call.op = "calculate_streak"
      /\ \A d \in PrayerDates :
           \E pt \in PrayerTypeSet : prayers[d][0][pt] # "done" )
    => call.result.val = [current |-> 0, best |-> 0]

\* C23 witness: calculate_streak on a table without any row.
C23_Witness ==
    /\ call.op = "calculate_streak"
    /\ \A d \in PrayerDates : prayers[d] = NoRecords
    /\ call.result.val = [current |-> 0, best |-> 0]


\* C24: however two callers under one Context interleave the lookup and the
\* store of get_cached_or_compute, every row of the cache is the row a single
\* call on an empty cache stores for its date, every caller that returned
\* times returned the times that single call returns, and a caller that
\* computed the times itself returned them (its store did not fail).
C24_RaceHarmless ==
    PrayerCalculator_new(config).tag = "Ok" =>
      \A d \in Dates :
        LET seq == get_cached_or_compute(Calculator, [e \in Dates |-> NoRow], d, TRUE) IN
        /\ cache[d] # NoRow => seq.result.tag = "Ok" /\ cache[d] = seq.cache[d]
        /\ \A p \in Procs :
             ( procs[p].pc = "done" /\ procs[p].date = d )
             => /\ procs[p].result.tag = "Ok" => procs[p].result = seq.result
                /\ procs[p].times # None => procs[p].result = Ok(procs[p].times.val)

\* C24 witness: both callers missed the same date, both computed and both
\* stored; they hold the same times and the date has its one row.
C24_Witness ==
    /\ \A p \in Procs : procs[p].pc = "done" /\ procs[p].times # None
    /\ procs[1].date = procs[2].date
    /\ procs[1].result = procs[2].result
    /\ procs[1].result.tag = "Ok"
    /\ cache[procs[1].date] # NoRow


\* C25: when the setup wizard is confirmed the Day Cache is cleared before
\* any time is computed with the new Context: once the run has set setup_done
\* to "1", every date from today to the end of the look-ahead has a row, and
\* every row of the cache is the one the newly saved Context computes for its
\* date; no row of another Context is ever left in the cache by the wizard.
C25_ReconfigurationClears ==
    /\ [][ ( /\ wizard.step = "Confirm"
              /\ wizard'.step = "Closed"
              /\ \/ app_meta.setup_done # Some("1") /\ app_meta'.setup_done = Some("1")
                 \/ call'.op = "run_setup_tui" /\ call'.result.tag = "Ok" )
            => /\ app_meta'.setup_done = Some("1")
               /\ config' = build_config(wizard, config)
               /\ \A d \in today..(today + SetupDaysAhead) : cache'[d] # NoRow
               /\ \A d \in Dates :
                    cache'[d] # NoRow
                    => LET times == compute_times(PrayerCalculator_new(config').val, d, TRUE) IN
                       /\ times.tag = "Ok"
                       /\ cache'[d] = store_times(cache', d, times.val)[d]
       ]_vars
    /\ [] ( \A d \in Dates :
              cache[d] # NoRow
              => LET times == compute_times(PrayerCalculator_new(config).val, d, TRUE) IN
                 /\ times.tag = "Ok"
                 /\ cache[d] = store_times(cache, d, times.val)[d] )

\* C25 witness: a confirmed wizard run has refilled the cache and set
\* setup_done, on a day on which a TUI session had already filled the cache
\* under another Context (its next prayer is not the one of the new Context).
C25_Witness ==
    /\ call.op = "run_setup_tui"
    /\ call.result.tag = "Ok"
    /\ Len(call.computed) = SetupDaysAhead + 1
    /\ app_meta.setup_done = Some("1")
    /\ today = 0
    /\ next_prayer_info.tag = "Some"
    /\ next_prayer_info #
         get_next_prayer(Calculator, cache, today, HMS(6, 0, 0), {}).result.val


\* C29: the setup command without --reset, run when setup_done is "1",
\* changes nothing: the wizard is not run, the configuration is not
\* modified, the Day Cache is neither cleared nor repopulated and setup_done
\* stays "1".
C29_SetupNoReset ==
    [][ ( call'.op = "setup" /\ app_meta.setup_done = Some("1") )
        => /\ wizard' = wizard
           /\ wizard'.step = "Closed"
           /\ config' = config
           /\ cache' = cache
           /\ app_meta' = app_meta
           /\ app_meta'.setup_done = Some("1")
      ]_vars

\* C29 witness: setup without --reset has just returned on a configured
\* system whose Day Cache holds rows.
C29_Witness ==
    /\ call.op = "setup"
    /\ app_meta.setup_done = Some("1")
    /\ wizard.step = "Closed"
    /\ \E d \in Dates : cache[d] # NoRow

\* C30 as stated: no subcommand other than setup and no TUI session runs
\* while setup_done is not "1".
C30_SetupPrecedesUse ==
    call.op \in Commands => app_meta.setup_done = Some("1")


\* C26 as stated: after `dhikr morning` or `dhikr evening` has run, today's
\* log of that dhikr is completed, whatever it was before.
C26_MarksDone ==
    /\ ( call.op = "dhikr morning" /\ call.result.tag = "Ok" )
       => /\ dhikr_log["Morning Adhkar"][call.date] # NoLog
          /\ dhikr_log["Morning Adhkar"][call.date].completed
    /\ ( call.op = "dhikr evening" /\ call.result.tag = "Ok" )
       => /\ dhikr_log["Evening Adhkar"][call.date] # NoLog
          /\ dhikr_log["Evening Adhkar"][call.date].completed


\* C27: `qada complete` completes exactly one pending entry, the one with
\* the smallest original_date (the smallest id among equal dates): the
\* pending count drops by exactly 1 and every other entry is unchanged; when
\* nothing is pending it returns false and changes nothing; and no step ever
\* makes a completed entry pending again.
C27_CompleteOldest ==
    /\ [][ call'.op = "qada complete"
           => LET pending == {i \in 1..Len(qada_queue) : ~qada_queue[i].completed} IN
              IF pending = {}
              THEN call'.result = Ok([completed |-> FALSE]) /\ qada_queue' = qada_queue
              ELSE /\ call'.result = Ok([completed |-> TRUE])
                   /\ count_pending(qada_queue') = count_pending(qada_queue) - 1
                   /\ \E i \in pending :
                        /\ \A j \in pending \ {i} :
                             \/ qada_queue[i].original_date < qada_queue[j].original_date
                             \/ /\ qada_queue[i].original_date = qada_queue[j].original_date
                                /\ i < j
                        /\ qada_queue' = [qada_queue EXCEPT ![i].completed = TRUE]
         ]_vars
    /\ [][ \A i \in 1..Len(qada_queue) :
             qada_queue[i].completed
             => Len(qada_queue') >= i /\ qada_queue'[i].completed ]_vars

\* C27 witness: `qada complete` has completed an entry that is older than a
\* pending entry of smaller id.
C27_Witness ==
    /\ call.op = "qada complete"
    /\ call.result = Ok([completed |-> TRUE])
    /\ \E i, j \in 1..Len(qada_queue) :
         /\ j < i
         /\ qada_queue[i].completed
         /\ ~qada_queue[j].completed
         /\ qada_queue[i].original_date < qada_queue[j].original_date

\* C28 as stated: marking a prayer missed (`mark --missed` or key M) sets
\* today's record of that prayer to missed and appends one pending qada entry
\* for that prayer with today's date; marking it done (`mark`, key m) sets
\* today's record to done and adds no entry; the records of the other four
\* prayers of today keep their status (a record that did not exist may be
\* created as pending).
C28_MarkEffects ==
    [][ \A pt \in PrayerTypeSet :
          ( /\ call'.op \in {"mark --missed", "key M", "mark", "key m"}
            /\ call'.result = Ok([prayer_type |-> pt]) )
          => /\ IF call'.op \in {"mark --missed", "key M"}
                THEN /\ prayers'[today][0][pt] = "missed"
                     /\ qada_queue' = Append(qada_queue,
                                             [prayer_type |-> pt, original_date |-> today,
                                              completed |-> FALSE])
                ELSE /\ prayers'[today][0][pt] = "done"
                     /\ qada_queue' = qada_queue
             /\ \A other \in PrayerTypeSet \ {pt} :
                  prayers'[today][0][other] =
                     IF prayers[today][0][other] = "absent" THEN "pending"
                     ELSE prayers[today][0][other]
      ]_vars


\* C31: ensure_today_rows is idempotent and never alters an existing record:
\* applied to the prayers table for any date it leaves a non-qada record for
\* each of the five prayers, pending where none existed and with its status
\* kept where one existed, it touches no other row, and applying it twice is
\* applying it once; so in every step (App::load, handle_mark and all others)
\* the steps that run it leave the five records of their date present, no
\* record disappears, and a record that is done or missed keeps its status
\* unless the step marks that very prayer.
C31_EnsureRowsKeepsRecords ==
    /\ [] ( \A d \in PrayerDates :
              LET e == ensure_today_rows(prayers, d) IN
              /\ \A pt \in PrayerTypeSet :
                   e[d][0][pt] = IF prayers[d][0][pt] = "absent" THEN "pending"
                                 ELSE prayers[d][0][pt]
              /\ e[d][1] = prayers[d][1]
              /\ \A o \in PrayerDates \ {d} : e[o] = prayers[o]
              /\ ensure_today_rows(e, d) = e )
    /\ [][ /\ call'.op \in {"tui", "mark", "mark --missed"} /\ call'.result.tag = "Ok"
              => \A pt \in PrayerTypeSet : prayers'[today][0][pt] # "absent"
           /\ ( call'.op \in {"key m", "key M"} /\ call'.result.val.prayer_type # "none" )
              => \A pt \in PrayerTypeSet : prayers'[app.today_str][0][pt] # "absent"
           /\ \A d \in PrayerDates, pt \in PrayerTypeSet :
                /\ prayers[d][0][pt] # "absent" => prayers'[d][0][pt] # "absent"
                /\ ( /\ prayers[d][0][pt] \in {"done", "missed"}
                     /\ ~ ( /\ call'.op \in {"key m", "key M", "mark", "mark --missed"}
                            /\ call'.result = Ok([prayer_type |-> pt]) ) )
                   => prayers'[d][0][pt] = prayers[d][0][pt]
         ]_vars

\* C31 witness: a session has just started (App::load ran ensure_today_rows)
\* on a day whose Fajr record was already marked, and the mark is still there
\* next to the four pending records.
C31_Witness ==
    /\ call.op = "tui"
    /\ call.result.tag = "Ok"
    /\ prayers[today][0]["Fajr"] \in {"done", "missed"}
    /\ \A pt \in PrayerTypeSet \ {"Fajr"} : prayers[today][0][pt] = "pending"


\* C32 as stated: in a TUI session, also one that has run past midnight, the
\* key m or M sets the record of the focused prayer on the date current at
\* the key press (the date get_next_prayer is asked about), and leaves the
\* record of the date on which the session started as it was.
C32_MarksCurrentDate ==
    [][ \A pt \in PrayerTypeSet :
          ( /\ call'.op \in {"key m", "key M"}
            /\ call'.result = Ok([prayer_type |-> pt]) )
          => /\ call'.date = today
             /\ prayers'[today][0][pt] = IF call'.op = "key M" THEN "missed" ELSE "done"
             /\ app.today_str # today
                => prayers'[app.today_str][0][pt] = prayers[app.today_str][0][pt]
      ]_vars

\* C33 as stated: after a prayer has been marked missed (`mark --missed` or
\* key M), however often it had been marked missed before, the qada queue
\* holds at most one pending entry for that prayer and the date it was
\* marked for.
C33_OnePendingEntry ==
    [][ \A pt \in PrayerTypeSet :
          ( /\ call'.op \in {"mark --missed", "key M"}
            /\ call'.result = Ok([prayer_type |-> pt]) )
          => LET date == IF call'.op = "key M" THEN app.today_str ELSE today IN
             Cardinality({ i \in 1..Len(qada_queue') :
                             /\ qada_queue'[i].prayer_type = pt
                             /\ qada_queue'[i].original_date = date
                             /\ ~qada_queue'[i].completed }) <= 1
      ]_vars


\* C34: for every history of completion records and every today the streak
\* that calculate_streak returns satisfies 0 <= current <= best.
C34_StreakConsistency ==
    /\ 0 <= calculate_streak(prayers, today).current
    /\ calculate_streak(prayers, today).current <= calculate_streak(prayers, today).best
    /\ call.op = "calculate_streak"
       => /\ 0 <= call.result.val.current
          /\ call.result.val.current <= call.result.val.best

\* C34 witness: calculate_streak has returned a current streak that is not
\* zero next to a longer best streak that lies in the past.
C34_Witness ==
    /\ call.op = "calculate_streak"
    /\ call.result.val.current >= 1
    /\ call.result.val.best > call.result.val.current


\* C35: the countdown that get_next_prayer returns is never negative, and
\* when now_time is in whole seconds it is at least 1, for a prayer of today
\* as for tomorrow's Fajr (now_time = 23:59:59 included).
C35_CountdownPositive ==
    ( /\ call.op = "get_next_prayer"
      /\ call.result.tag = "Ok"
      /\ call.result.val.tag = "Some" )
    => /\ call.result.val.val.secs >= 0
       /\ call.now % SubsecPerSec = 0 => call.result.val.val.secs >= 1

\* C35 witness: at 23:59:59 sharp get_next_prayer has returned the countdown
\* to tomorrow's Fajr.
C35_Witness ==
    /\ call.op = "get_next_prayer"
    /\ call.now = HMS(23, 59, 59)
    /\ call.result.tag = "Ok"
    /\ call.result.val.tag = "Some"
    /\ call.result.val.val.prayer = "Fajr"
    /\ Len(call.computed) >= 1
    /\ call.result.val.val.secs >= 1

\* C36: in a running session should_quit becomes true only on a press of
\* Esc in the Dashboard view, in Normal input mode, with the qada overlay
\* closed.  A press of Esc in Quran-input mode only puts the mode back to
\* Normal with the entry and the error cleared; in the Stats or Help view
\* it only sets the view to Dashboard; any key pressed while the overlay is
\* open only closes the overlay; an event that is not a press changes
\* neither the App nor the tables.
C36_QuitRule ==
    [][ app.running =>
          LET tables == <<prayers, cache, next_prayer_info, qada_queue, dhikr_log,
                          quran_log>>
              pressed == call'.op \in {"key " \o ev.key : ev \in TuiEvents} IN
          /\ app'.should_quit
                => /\ call'.op = "key Esc"
                   /\ app.view = "Dashboard"
                   /\ app.input_mode = "Normal"
                   /\ ~app.show_qada_overlay
          /\ ( call'.op = "key Esc" /\ app.input_mode = "QuranInput" )
                => /\ app' = [app EXCEPT !.input_mode = "Normal", !.input_buffer = <<>>,
                                          !.input_error = None]
                   /\ UNCHANGED tables
          /\ ( call'.op = "key Esc" /\ app.input_mode = "Normal"
                                    /\ app.view \in {"Stats", "Help"} )
                => /\ app' = [app EXCEPT !.view = "Dashboard"]
                   /\ UNCHANGED tables
          /\ ( pressed /\ app.show_qada_overlay )
                => /\ app' = [app EXCEPT !.show_qada_overlay = FALSE]
                   /\ UNCHANGED tables
          /\ call'.op \in {"release " \o ev.key : ev \in TuiEvents}
                => UNCHANGED <<app, prayers, cache, next_prayer_info, qada_queue,
                               dhikr_log, quran_log>> ]_vars

\* C36 witness: a session that Esc has ended from the dashboard after Enter
\* marked Fajr, with no pages logged
C36_Witness ==
    /\ call.op = "key Esc"
    /\ app.should_quit
    /\ ~app.running
    /\ quran_log = [d \in PrayerDates |-> 0]
    /\ prayers[today][0]["Fajr"] = "done"

\* C37: in a running session focus_idx is an index of the list of the
\* focused section (App.prayers or App.dhikr_defs) whenever that list is not
\* empty; a press of Up or Down moves it by at most one and leaves the
\* section as it is; a press of Tab changes the section and sets it to 0, and
\* a press of d in the Prayers section moves to the Dhikr section with 0.
C37_FocusIndexValid ==
    /\ [] ( app.running =>
             LET list == IF app.focus_section = "Prayers" THEN app.prayers
                         ELSE app.dhikr_defs IN
             /\ app.focus_section \in {"Prayers", "Dhikr"}
             /\ app.focus_idx >= 0
             /\ Len(list) > 0 => app.focus_idx + 1 <= Len(list) )
    /\ [][ app.running =>
             /\ call'.op \in {"key Up", "key Down"}
                   => /\ app'.focus_section = app.focus_section
                      /\ app'.focus_idx \in {app.focus_idx - 1, app.focus_idx,
                                              app.focus_idx + 1}
             /\ call'.op = "key Tab"
                   => /\ app'.focus_section # app.focus_section
                      /\ app'.focus_idx = 0
             /\ ( call'.op = "key d" /\ app.focus_section = "Prayers" )
                   => /\ app'.focus_section = "Dhikr"
                      /\ app'.focus_idx = 0 ]_vars

\* C37 witness: Down pressed with the focus on the last prayer, after a
\* dhikr was toggled from the Dhikr section and a prayer marked
C37_Witness ==
    /\ app.running
    /\ call.op = "key Down"
    /\ app.focus_section = "Prayers"
    /\ app.focus_idx + 1 = Len(app.prayers)
    /\ Len(app.prayers) = 5
    /\ app.dhikr_logs["Post-Salah Tasbih"] # NoLog
    /\ prayers[app.today_str][0]["Isha"] = "done"

\* C38: in Quran-input mode a press of Enter on an entry that is empty, not
\* a number or not greater than 0 leaves the quran_log table as it is, sets
\* an error and keeps the mode; a press of Enter on a number greater than 0
\* adds that number once to the pages of the current date and to no other
\* date, and puts the mode back to Normal with the entry and the error
\* cleared; a press of Esc leaves the mode and the table is unchanged.
C38_QuranInput ==
    [][ ( app.running /\ app.input_mode = "QuranInput" ) =>
          LET parsed == parse_f64(app.input_buffer)
              valid == /\ app.input_buffer # <<>>
                       /\ parsed.tag = "Ok"
                       /\ parsed.val.pages > 0 IN
          /\ ( call'.op = "key Enter" /\ ~valid )
                => /\ quran_log' = quran_log
                   /\ app'.input_error # None
                   /\ app'.input_mode = "QuranInput"
          /\ ( call'.op = "key Enter" /\ valid )
                => /\ quran_log' = [quran_log EXCEPT ![today] = @ + parsed.val.pages]
                   /\ app'.input_mode = "Normal"
                   /\ app'.input_buffer = <<>>
                   /\ app'.input_error = None
          /\ call'.op = "key Esc"
                => /\ quran_log' = quran_log
                   /\ app'.input_mode = "Normal" ]_vars
====
